---- MODULE Spec2Model ----
(***************************************************************************)
(* Registration control plane of SIPAccount (src/src/sip/sipaccount.cpp).  *)
(*                                                                         *)
(* Every method of SIPAccount that takes part in registration is an        *)
(* operator from an account snapshot (a record with one field per member   *)
(* or per collaborator object) and the environment's inputs to the         *)
(* snapshot after the call, so that a method calling another method is an  *)
(* operator applied to the result of another.  One action per entry point  *)
(* (public method or callback) applies the operator to the variables.      *)
(***************************************************************************)
EXTENDS Integers, Sequences, FiniteSets, TLC

VARIABLES
    hostname_,          \* "" for the direct-IP profile (isIP2IP), else the registrar
    upnpCtrl_,          \* a UPnP controller is configured
    tlsEnable_,         \* TLS transport selected
    enabled_,           \* Account::enabled_
    active_,            \* Account::active_
    registrationState_, \* Account::registrationState_
    bRegister_,         \* SIPAccount::bRegister_
    regc_,              \* SIPAccount::regc_ (0 is nullptr)
    transport_,         \* SIPAccount::transport_ (0 is nullptr)
    hostIp_,            \* SIPAccount::hostIp_ is set
    tlsListener_,       \* SIPAccount::tlsListener_ is set
    auto_rereg_,        \* SIPAccount::auto_rereg_
    has_tsx,            \* pjsip_regc: request awaiting its final response, per structure
    timerHeap,          \* endpoint timer heap: pending entries of auto_rereg_.timer
    listeners,          \* transports on which this account is a state listener
    upnpCb,             \* a mapping notify callback is installed at the UPnP controller
    resolving,          \* resolveSrvName callbacks not yet delivered
    crashed,            \* the process died on a null dereference
    sent,               \* requests handed to the transport by the last handler
    sched,              \* what scheduleReregistration did in the last handler
    delay,              \* the delay scheduleReregistration computed in the last handler
    last,               \* the last handler: name, inputs, account state at entry
    cred_,              \* SIPAccount::cred_, the auth-info records
    credentials_,       \* SIPAccount::credentials_
    pending,            \* MESSAGE requests awaiting a response: the ctx and the CSeq
    reports,            \* calls of messageEngine_.onMessageSent, in order
    nextId,             \* the id the message engine gives to the next message
    credsGiven,         \* the arguments of the last call of setCredentials: the
                        \* list and the preference getMd5Hash() it found
    allowIPAutoRewrite_,   \* SIPAccount::allowIPAutoRewrite_
    contactAddress_,       \* SIPAccount::contactAddress_ (ip "" is the invalid address)
    contactHeader_,        \* SIPAccount::contactHeader_, by the parts printContactHeader joins
    via_addr_,             \* SIPAccount::via_addr_ (host "" has slen 0)
    via_tp_,               \* SIPAccount::via_tp_ (0 is nullptr)
    publishedSameasLocal_, \* SIPAccountBase::publishedSameasLocal_
    publishedIpAddress_,   \* SIPAccountBase::publishedIpAddress_
    nat,                   \* the call of checkNATAddress in the last handler
    racing,                \* the last handler sent a REGISTER while another one of
                           \* the account was awaiting its response
    unlocked,              \* what the last handler wrote without configurationMutex_
    destroyed,             \* ~SIPAccount has run
    registrationExpire_,   \* SIPAccount::registrationExpire_
    dropped,               \* the structure whose response onRegister discarded in the
                           \* last handler (0 is none)
    failed,                \* the step of the registration path that failed in the
                           \* last handler ("" is none)
    transportError_,       \* SIPAccountBase::transportError_ ("" or the text of an
                           \* error status)
    publishedPort_,        \* SIPAccountBase::publishedPort_
    contactFrom,           \* what initContactAddress read in the last handler
    released               \* the calls of released_cb in the last handler: the
                           \* argument and the account as the callback finds it

vars == <<hostname_, upnpCtrl_, tlsEnable_, enabled_, active_, registrationState_,
          bRegister_, regc_, transport_, hostIp_, tlsListener_, auto_rereg_,
          has_tsx, timerHeap, listeners, upnpCb, resolving, crashed,
          sent, sched, delay, last, cred_, credentials_, pending, reports, nextId,
          credsGiven,
          allowIPAutoRewrite_, contactAddress_, contactHeader_, via_addr_, via_tp_,
          publishedSameasLocal_, publishedIpAddress_, nat, racing, unlocked,
          destroyed, registrationExpire_, dropped, failed,
          transportError_, publishedPort_, contactFrom, released>>

msgVars == <<cred_, credentials_, pending, reports, nextId, credsGiven>>

accVars == <<hostname_, upnpCtrl_, tlsEnable_, enabled_, active_, registrationState_,
             bRegister_, regc_, transport_, hostIp_, tlsListener_, auto_rereg_,
             has_tsx, timerHeap, listeners, upnpCb, resolving,
             sent, sched, delay,
             allowIPAutoRewrite_, contactAddress_, contactHeader_, via_addr_, via_tp_,
             publishedSameasLocal_, publishedIpAddress_, nat, racing, unlocked,
             destroyed, registrationExpire_, dropped, failed,
             transportError_, publishedPort_, contactFrom, released>>

-----------------------------------------------------------------------------
(* Bounds *)

MaxRegc == 2
MaxTransport == 1
MaxAttempt == 1
MaxResolving == 1
MaxMsgs == 2
MaxResend == 2

(* Program constants *)

MIN_REGISTRATION_TIME == 60
DEFAULT_REGISTRATION_EXPIRE == 3600
REGISTRATION_FIRST_RETRY_INTERVAL == 60
REGISTRATION_RETRY_INTERVAL == 300

PJSIP_SC_OK == 200
PJSIP_SC_ACCEPTED == 202
PJSIP_SC_UNAUTHORIZED == 401
PJSIP_SC_FORBIDDEN == 403
PJSIP_SC_NOT_FOUND == 404
PJSIP_SC_PROXY_AUTHENTICATION_REQUIRED == 407
PJSIP_SC_REQUEST_TIMEOUT == 408
PJSIP_SC_INTERNAL_SERVER_ERROR == 500
PJSIP_SC_BAD_GATEWAY == 502
PJSIP_SC_SERVICE_UNAVAILABLE == 503
PJSIP_SC_SERVER_TIMEOUT == 504

RegcIds == 1..MaxRegc
Transports == 1..MaxTransport

RegistrationState ==
    {"UNREGISTERED", "TRYING", "REGISTERED", "ERROR_GENERIC", "ERROR_AUTH",
     "ERROR_HOST", "ERROR_SERVICE_UNAVAILABLE"}

ErrorStates == {"ERROR_GENERIC", "ERROR_AUTH", "ERROR_HOST", "ERROR_SERVICE_UNAVAILABLE"}

(* Status codes a registration callback is tried with: one of each branch  *)
(* of onRegister's two switches, and the edges of the classes.             *)
Codes == {-1, 100, 200, 299, 300, 401, 403, 404, 407, 408, 500, 502, 503, 504, 599,
          600, 699, 700}

(* One status code of each kind of outcome: success, a failure that is    *)
(* not retried, a failure that is retried.                                 *)
CodesMain == {PJSIP_SC_OK, PJSIP_SC_FORBIDDEN, PJSIP_SC_SERVICE_UNAVAILABLE}

(* Expiration values of a registration callback *)
Expirations == {0, 1, DEFAULT_REGISTRATION_EXPIRE}

(* Draws of delay10ZeroDist_ {-10000, 10000} and delay10PosDist_ {0, 10000} *)
JitterZero == {-10000, -1000, -1, 0, 999, 1000, 10000}
JitterPos == {0, 999, 1000, 10000}

(* The draws a handler is run with *)
JitterDrawn == {-10000, 10000}

-----------------------------------------------------------------------------
(* PJSIP_IS_STATUS_IN_CLASS(code, class) *)
PJSIP_IS_STATUS_IN_CLASS(code, class) == (code \div 100) = (class \div 100)

(* IpAddr {}: the address that is not valid *)
NoAddr == [ip |-> "", port |-> 0]

(* The empty contact header *)
NoHeader == [scheme |-> "", address |-> "", port |-> 0, transport |-> ""]

(* No call of checkNATAddress: its return value, the observed address and  *)
(* port, the source of the response, and the contact it started from.      *)
NoNat == [ret |-> "none", via_addr |-> "", rport |-> 0, src_name |-> "",
          contact |-> NoAddr, header |-> NoHeader]

(* The account and its collaborators as one record, as a handler finds    *)
(* them; exc is a VoipLinkException on its way to the enclosing catch.     *)
S == [hostname_ |-> hostname_, upnpCtrl_ |-> upnpCtrl_, tlsEnable_ |-> tlsEnable_,
      enabled_ |-> enabled_, active_ |-> active_,
      registrationState_ |-> registrationState_, bRegister_ |-> bRegister_,
      regc_ |-> regc_, transport_ |-> transport_, hostIp_ |-> hostIp_,
      tlsListener_ |-> tlsListener_, auto_rereg_ |-> auto_rereg_,
      has_tsx |-> has_tsx, timerHeap |-> timerHeap, listeners |-> listeners,
      upnpCb |-> upnpCb, resolving |-> resolving, crashed |-> crashed,
      sent |-> <<>>, sched |-> <<>>, delay |-> [sec |-> 0, msec |-> 0],
      exc |-> FALSE,
      allowIPAutoRewrite_ |-> allowIPAutoRewrite_,
      contactAddress_ |-> contactAddress_, contactHeader_ |-> contactHeader_,
      via_addr_ |-> via_addr_, via_tp_ |-> via_tp_,
      publishedSameasLocal_ |-> publishedSameasLocal_,
      publishedIpAddress_ |-> publishedIpAddress_, nat |-> NoNat,
      racing |-> FALSE, locked |-> FALSE, unlocked |-> {},
      registrationExpire_ |-> registrationExpire_, dropped |-> 0,
      failed |-> "", transportError_ |-> transportError_,
      publishedPort_ |-> publishedPort_, contactFrom |-> <<>>,
      released |-> <<>>]

(* A handler writes the member what: noted when the thread does not hold   *)
(* configurationMutex_                                                     *)
Wrote(s, what) == IF s.locked THEN s ELSE [s EXCEPT !.unlocked = @ \cup {what}]

(* std::lock_guard<std::recursive_mutex> lock(configurationMutex_) around  *)
(* a block: the account as the block finds it, and as it is left           *)
Lock(s) == [s EXCEPT !.locked = TRUE]
Unlock(r, s) == [r EXCEPT !.locked = s.locked]

(* A step of the registration path fails: the resolver gives no address   *)
(* ("resolve"), no binding address ("bind"), no TLS listener ("tls"), no   *)
(* transport ("transport"), the REGISTER is not built or sent ("register") *)
Failed(s, what) == [s EXCEPT !.failed = what]

(* Account::isUsable *)
isUsable(s) == s.enabled_ /\ s.active_

(* SIPAccount::isIP2IP *)
isIP2IP(s) == s.hostname_ = ""

(* SIPAccount::isRegistered *)
isRegistered(s) == s.bRegister_

(* SIPAccount::setRegister *)
setRegister(s, result) == [s EXCEPT !.bRegister_ = result]

(* SIPAccount::setRegistrationState *)
setRegistrationState(s, state) ==
    Wrote([s EXCEPT !.registrationState_ = state], "registrationState_")

(* SIPAccount::destroyRegistrationInfo: pjsip_regc_destroy drops the       *)
(* structure's callback, so its pending request is answered to nobody.     *)
destroyRegistrationInfo(s) ==
    IF s.regc_ = 0 THEN s
    ELSE [s EXCEPT !.has_tsx[s.regc_] = "none", !.regc_ = 0]

(* SIPAccount::setRegistrationInfo *)
setRegistrationInfo(s, regc) ==
    [(IF s.regc_ # 0 THEN destroyRegistrationInfo(s) ELSE s) EXCEPT !.regc_ = regc]

(* Fault for C6: resetAutoRegistration that leaves the attempt counter *)
resetAutoRegistration_M(s) ==
    [s EXCEPT !.auto_rereg_.active = FALSE,
              !.auto_rereg_.user_data = FALSE]

(* SIPAccount::resetAutoRegistration *)
resetAutoRegistration(s) ==
    Wrote([s EXCEPT !.auto_rereg_.active = FALSE,
                    !.auto_rereg_.attempt_cnt = 0,
                    !.auto_rereg_.user_data = FALSE],
          "auto_rereg_")

(* pj_time_val_normalize, the loop of its second branch *)
RECURSIVE NormalizeDown(_)
NormalizeDown(t) ==
    LET t1 == [t EXCEPT !.sec = @ - 1, !.msec = @ + 1000]
    IN  IF t1.msec <= -1000 THEN NormalizeDown(t1) ELSE t1

(* pj_time_val_normalize *)
pj_time_val_normalize(t) ==
    LET t1 == IF t.msec >= 1000
                 THEN [sec |-> t.sec + (t.msec \div 1000), msec |-> t.msec % 1000]
              ELSE IF t.msec <= -1000 THEN NormalizeDown(t)
              ELSE t
    IN  IF t1.sec >= 1 /\ t1.msec < 0
           THEN [sec |-> t1.sec - 1, msec |-> t1.msec + 1000]
        ELSE IF t1.sec < 0 /\ t1.msec > 0
           THEN [sec |-> t1.sec + 1, msec |-> t1.msec - 1000]
        ELSE t1

(* scheduleReregistration, "Randomize interval by +/- 10 secs": jz and jp  *)
(* are the draws of delay10ZeroDist_ and delay10PosDist_.                  *)
JitterDelay(base, jz, jp) ==
    pj_time_val_normalize(IF base >= 10 THEN [sec |-> base, msec |-> jz]
                                        ELSE [sec |-> 0, msec |-> jp])

(* Fault for C7: the two intervals exchanged *)
RetryBase_M(attempt_cnt) ==
    IF attempt_cnt # 0 THEN REGISTRATION_FIRST_RETRY_INTERVAL
                       ELSE REGISTRATION_RETRY_INTERVAL

(* scheduleReregistration, "The first attempt will be done sooner" *)
RetryBase(attempt_cnt) ==
    IF attempt_cnt # 0 THEN REGISTRATION_RETRY_INTERVAL
                       ELSE REGISTRATION_FIRST_RETRY_INTERVAL

(* Fault for C5: the pending timer is not cancelled *)
cancelReregTimer_M(s) == s

(* SIPAccount::scheduleReregistration, "Cancel any re-registration timer": *)
(* pjsip_endpt_cancel_timer takes the entry out of the heap if it is there *)
cancelReregTimer(s) ==
    IF s.auto_rereg_.timer_id
       THEN Wrote([s EXCEPT !.auto_rereg_.timer_id = FALSE,
                            !.timerHeap = IF @ > 0 THEN @ - 1 ELSE 0,
                            !.sched = Append(@, IF s.timerHeap > 0 THEN "cancelled"
                                                                   ELSE "cancel-idle")],
                  "auto_rereg_")
       ELSE s

(* Fault for C34: no further retry once a retry was made *)
scheduleReregistration_M(s, in) ==
    IF ~isUsable(s) \/ s.auto_rereg_.attempt_cnt > 0 THEN s
    ELSE
      LET s1 == cancelReregTimer(s)
          s2 == Wrote([s1 EXCEPT !.auto_rereg_.active = TRUE,
                                 !.auto_rereg_.user_data = TRUE,
                                 !.delay = JitterDelay(RetryBase(s.auto_rereg_.attempt_cnt),
                                                       in.jz, in.jp)],
                      "auto_rereg_")
      IN  IF in.timerOk
             THEN [s2 EXCEPT !.auto_rereg_.timer_id = TRUE,
                             !.timerHeap = @ + 1,
                             !.sched = Append(@, "scheduled")]
             ELSE [s2 EXCEPT !.auto_rereg_.timer_id = FALSE,
                             !.sched = Append(@, "refused")]

(* SIPAccount::scheduleReregistration; in.timerOk is the status of         *)
(* pjsip_endpt_schedule_timer.                                             *)
scheduleReregistration(s, in) ==
    IF ~isUsable(s) THEN s
    ELSE
      LET s1 == cancelReregTimer(s)
          s2 == Wrote([s1 EXCEPT !.auto_rereg_.active = TRUE,
                                 !.auto_rereg_.user_data = TRUE,
                                 !.delay = JitterDelay(RetryBase(s.auto_rereg_.attempt_cnt),
                                                       in.jz, in.jp)],
                      "auto_rereg_")
      IN  IF in.timerOk
             THEN [s2 EXCEPT !.auto_rereg_.timer_id = TRUE,
                             !.timerHeap = @ + 1,
                             !.sched = Append(@, "scheduled")]
             ELSE [s2 EXCEPT !.auto_rereg_.timer_id = FALSE,
                             !.sched = Append(@, "refused")]

(* Address strings: two public IPv4 addresses, a private one, the sources  *)
(* of a response, a host name, and one IPv6 address in three spellings.    *)
Ipv6Spellings == {"2001:DB8::1", "2001:db8::1", "[2001:db8::1]"}
Ipv4Strings == {"203.0.113.5", "203.0.113.9", "10.0.0.4", "198.51.100.7", "192.168.1.1"}
PrivateIps == {"10.0.0.4", "192.168.1.1"}

(* pj_sockaddr_parse and IpAddr(string): the address a string denotes, ""  *)
(* when it is no address                                                   *)
pj_sockaddr_parse(str) ==
    IF str \in Ipv6Spellings THEN "2001:db8::1"
    ELSE IF str \in Ipv4Strings THEN str
    ELSE ""

(* IpAddr::isIpv6(string) *)
isIpv6(str) == str \in Ipv6Spellings \ {"[2001:db8::1]"}

(* IpAddr::toString(include_port = false, force_ipv6_brackets) *)
toString(ip, brackets) ==
    IF ip = "2001:db8::1" /\ brackets THEN "[2001:db8::1]" ELSE ip

(* IpAddr::isPrivate *)
isPrivate(a) == a.ip \in PrivateIps

(* operator==(IpAddr, IpAddr): pj_sockaddr_cmp, address and port *)
IpAddrEq(a, b) == a.ip = b.ip /\ a.port = b.port

(* pjsip_transport_get_default_port_for_type *)
pjsip_transport_get_default_port_for_type(secure) == IF secure THEN 5061 ELSE 5060

(* PJSIP_TRANSPORT_IS_SECURE of the account's transport *)
PJSIP_TRANSPORT_IS_SECURE(s) == s.tlsEnable_


(* Fault for C12: the contact header keeps the default port *)
printContactHeader_M(address, port, secure) ==
    [scheme |-> IF secure THEN "sips" ELSE "sip", address |-> address,
     port |-> pjsip_transport_get_default_port_for_type(secure),
     transport |-> IF secure THEN ";transport=tls" ELSE ""]

(* SIPAccount::printContactHeader for the account's user name, without     *)
(* display name and device key                                             *)
printContactHeader(address, port, secure) ==
    [scheme |-> IF secure THEN "sips" ELSE "sip", address |-> address, port |-> port,
     transport |-> IF secure THEN ";transport=tls" ELSE ""]

(* SIPAccount::updateContactHeader *)
updateContactHeader(s) ==
    IF s.transport_ = 0 THEN s
    ELSE IF s.contactAddress_.ip = "" THEN s
    ELSE [s EXCEPT !.contactHeader_ =
              printContactHeader(toString(s.contactAddress_.ip, TRUE),
                                 s.contactAddress_.port, PJSIP_TRANSPORT_IS_SECURE(s))]

(* Fault for C36: STUN is asked before the published address is looked at *)
initContactAddress_M(s, in) ==
    IF s.transport_ = 0 THEN s
    ELSE
      LET useUpnp == s.upnpCtrl_ /\ in.upnp.ip # ""
          address == IF useUpnp THEN in.upnp.ip
                     ELSE IF in.stunEnabled_ THEN in.stun.ip
                     ELSE IF ~s.publishedSameasLocal_
                        THEN toString(pj_sockaddr_parse(s.publishedIpAddress_), FALSE)
                     ELSE IF in.receivedParameter_ # "" THEN in.receivedParameter_
                     ELSE in.local.ip
          port == IF useUpnp THEN in.upnp.port
                  ELSE IF in.stunEnabled_ THEN in.stun.port
                  ELSE IF ~s.publishedSameasLocal_ THEN s.publishedPort_
                  ELSE IF in.rPort_ > 0 THEN in.rPort_
                  ELSE in.local.port
          s1 == IF useUpnp
                   THEN [s EXCEPT !.via_addr_ = [host |-> in.upnp.ip, port |-> in.upnp.port]]
                ELSE IF in.stunEnabled_
                   THEN [s EXCEPT !.publishedIpAddress_ = address,
                                  !.publishedPort_ = port,
                                  !.via_addr_ = [host |-> toString(pj_sockaddr_parse(address),
                                                                   FALSE),
                                                 port |-> port]]
                   ELSE s
      IN  [s1 EXCEPT !.contactAddress_ = [ip |-> pj_sockaddr_parse(address), port |-> port],
                     !.contactFrom = <<[upnpActive |-> s.upnpCtrl_, upnp |-> in.upnp,
                                        publishedSameasLocal_ |-> s.publishedSameasLocal_,
                                        publishedIpAddress_ |-> s.publishedIpAddress_,
                                        publishedPort_ |-> s.publishedPort_,
                                        stunEnabled_ |-> in.stunEnabled_, stun |-> in.stun,
                                        receivedParameter_ |-> in.receivedParameter_,
                                        rPort_ |-> in.rPort_, local |-> in.local]>>]

(* SIPAccount::initContactAddress.  in.local is the address                *)
(* findLocalAddressFromTransport finds, in.upnp the external address of    *)
(* the UPnP controller (ip "" when UPnP is not active or knows none) and   *)
(* the published port in use, in.stun the address and port                 *)
(* findLocalAddressFromSTUN gives.  stunEnabled_, receivedParameter_ and   *)
(* rPort_ are members written outside this class (the configuration of     *)
(* the base class, setReceivedParameter and setRPort called by the link);  *)
(* the method finds them as in.stunEnabled_, in.receivedParameter_ and     *)
(* in.rPort_.  contactFrom keeps what the method read.                     *)
initContactAddress(s, in) ==
    IF s.transport_ = 0 THEN s
    ELSE
      LET useUpnp == s.upnpCtrl_ /\ in.upnp.ip # ""
          address == IF useUpnp THEN in.upnp.ip
                     ELSE IF ~s.publishedSameasLocal_
                        THEN toString(pj_sockaddr_parse(s.publishedIpAddress_), FALSE)
                     ELSE IF in.stunEnabled_ THEN in.stun.ip
                     ELSE IF in.receivedParameter_ # "" THEN in.receivedParameter_
                     ELSE in.local.ip
          port == IF useUpnp THEN in.upnp.port
                  ELSE IF ~s.publishedSameasLocal_ THEN s.publishedPort_
                  ELSE IF in.stunEnabled_ THEN in.stun.port
                  ELSE IF in.rPort_ > 0 THEN in.rPort_
                  ELSE in.local.port
          s1 == IF useUpnp
                   THEN [s EXCEPT !.via_addr_ = [host |-> in.upnp.ip, port |-> in.upnp.port]]
                ELSE IF s.publishedSameasLocal_ /\ in.stunEnabled_
                   THEN [s EXCEPT !.publishedIpAddress_ = address,
                                  !.publishedPort_ = port,
                                  !.via_addr_ = [host |-> toString(pj_sockaddr_parse(address),
                                                                   FALSE),
                                                 port |-> port]]
                   ELSE s
      IN  [s1 EXCEPT !.contactAddress_ = [ip |-> pj_sockaddr_parse(address), port |-> port],
                     !.contactFrom = <<[upnpActive |-> s.upnpCtrl_, upnp |-> in.upnp,
                                        publishedSameasLocal_ |-> s.publishedSameasLocal_,
                                        publishedIpAddress_ |-> s.publishedIpAddress_,
                                        publishedPort_ |-> s.publishedPort_,
                                        stunEnabled_ |-> in.stunEnabled_, stun |-> in.stun,
                                        receivedParameter_ |-> in.receivedParameter_,
                                        rPort_ |-> in.rPort_, local |-> in.local]>>]

setTransport(s, t, in) ==
    IF t = s.transport_ THEN s
    ELSE
      LET s1 == IF s.transport_ # 0
                   THEN [s EXCEPT !.listeners = @ \ {s.transport_}]
                   ELSE s
          s2 == Wrote([s1 EXCEPT !.transport_ = t], "transport_")
      IN  IF t # 0
             THEN LET s3 == initContactAddress([s2 EXCEPT !.listeners = @ \cup {t}], in)
                  IN  IF s3.contactAddress_.ip = "" THEN s3 ELSE updateContactHeader(s3)
             ELSE s2

(* Fault for C1: the case of PJSIP_SC_REQUEST_TIMEOUT is missing *)
RegistrationErrorState_M(code) ==
    CASE code = PJSIP_SC_FORBIDDEN -> "ERROR_AUTH"
      [] code = PJSIP_SC_NOT_FOUND -> "ERROR_HOST"
      [] code = PJSIP_SC_SERVICE_UNAVAILABLE -> "ERROR_SERVICE_UNAVAILABLE"
      [] OTHER -> "ERROR_GENERIC"

(* SIPAccount::onRegister, the first switch on param->code *)
RegistrationErrorState(code) ==
    CASE code = PJSIP_SC_FORBIDDEN -> "ERROR_AUTH"
      [] code = PJSIP_SC_NOT_FOUND -> "ERROR_HOST"
      [] code = PJSIP_SC_REQUEST_TIMEOUT -> "ERROR_HOST"
      [] code = PJSIP_SC_SERVICE_UNAVAILABLE -> "ERROR_SERVICE_UNAVAILABLE"
      [] OTHER -> "ERROR_GENERIC"

(* Fault for C2: the default case does not look at the 6xx class *)
NeedsAutoRetry_M(code) ==
    code \in {PJSIP_SC_REQUEST_TIMEOUT, PJSIP_SC_INTERNAL_SERVER_ERROR,
              PJSIP_SC_BAD_GATEWAY, PJSIP_SC_SERVICE_UNAVAILABLE,
              PJSIP_SC_SERVER_TIMEOUT}

(* SIPAccount::onRegister, the second switch on param->code *)
NeedsAutoRetry(code) ==
    \/ code \in {PJSIP_SC_REQUEST_TIMEOUT, PJSIP_SC_INTERNAL_SERVER_ERROR,
                 PJSIP_SC_BAD_GATEWAY, PJSIP_SC_SERVICE_UNAVAILABLE,
                 PJSIP_SC_SERVER_TIMEOUT}
    \/ PJSIP_IS_STATUS_IN_CLASS(code, 600)

(* SIPAccount::checkNATAddress, the observed port: the rport parameter of  *)
(* the Via header, else the port of sent-by, else the transport's default  *)
ObservedPort(s, in) ==
    IF in.rport_param < 1
       THEN IF in.sent_by.port = 0
               THEN pjsip_transport_get_default_port_for_type(PJSIP_TRANSPORT_IS_SECURE(s))
               ELSE in.sent_by.port
       ELSE in.rport_param

(* SIPAccount::checkNATAddress, the observed address: the received         *)
(* parameter of the Via header, else the host of sent-by                   *)
ObservedAddr(in) == IF in.recvd_param # "" THEN in.recvd_param ELSE in.sent_by.host

(* Fault for C11: the contact and the observed address compared as strings *)
NatMatched_M(contact_addr, recv_addr, via_addr, rport) ==
    contact_addr.port = rport /\ toString(contact_addr.ip, FALSE) = via_addr

(* SIPAccount::checkNATAddress, the comparison of the contact with the     *)
(* observed address: as socket addresses when the observed one parses, as  *)
(* strings otherwise (pj_stricmp of equal-case spellings is equality)      *)
NatMatched(contact_addr, recv_addr, via_addr, rport) ==
    IF recv_addr.ip # ""
       THEN IpAddrEq(contact_addr, recv_addr)
       ELSE contact_addr.port = rport /\ toString(contact_addr.ip, FALSE) = via_addr

(* Fault for C13: a private observed address is taken over from a public   *)
(* registrar                                                               *)
NatDontSwitch_M(contact_addr, srv_ip, recv_addr) ==
    IpAddrEq(contact_addr, recv_addr) /\ isPrivate(recv_addr)

(* SIPAccount::checkNATAddress, the two cases in which a changed address   *)
(* is not taken over                                                       *)
NatDontSwitch(contact_addr, srv_ip, recv_addr) ==
    \/ ~isPrivate(contact_addr) /\ ~isPrivate(srv_ip) /\ isPrivate(recv_addr)
    \/ IpAddrEq(contact_addr, recv_addr) /\ isPrivate(recv_addr)

(* SIPAccount::checkNATAddress for the response in (Via header, source)    *)
(* that arrived on the account's transport; nat.ret is the return value.   *)
checkNATAddress(s, in) ==
    LET via_addr == ObservedAddr(in)
        rport == ObservedPort(s, in)
        via_addrstr == IF isIpv6(via_addr)
                          THEN toString(pj_sockaddr_parse(via_addr), TRUE)
                          ELSE via_addr
        s1 == IF s.via_addr_.host = "" \/ s.via_tp_ # s.transport_
                 THEN [s EXCEPT !.via_addr_ = [host |-> via_addr, port |-> rport],
                                !.via_tp_ = s.transport_]
                 ELSE s
        s2 == [s1 EXCEPT !.publishedSameasLocal_ = FALSE,
                         !.publishedIpAddress_ = via_addrstr]
        contact_addr ==
            IF s2.contactAddress_.port = 0
               THEN [s2.contactAddress_ EXCEPT !.port =
                        pjsip_transport_get_default_port_for_type(
                            PJSIP_TRANSPORT_IS_SECURE(s))]
               ELSE s2.contactAddress_
        recv_addr == [ip |-> pj_sockaddr_parse(via_addr), port |-> rport]
        srv_ip == [ip |-> pj_sockaddr_parse(in.src_name), port |-> 0]
        call == [ret |-> "unchanged", via_addr |-> via_addr, rport |-> rport,
                 src_name |-> in.src_name,
                 contact |-> s.contactAddress_, header |-> s.contactHeader_]
    IN  IF NatMatched(contact_addr, recv_addr, via_addr, rport)
           THEN [s2 EXCEPT !.nat = call]
        ELSE IF NatDontSwitch(contact_addr, srv_ip, recv_addr)
           THEN [s2 EXCEPT !.nat = call]
        ELSE [s2 EXCEPT !.contactHeader_ =
                            printContactHeader(via_addrstr, rport,
                                               PJSIP_TRANSPORT_IS_SECURE(s)),
                        !.nat = [call EXCEPT !.ret = "changed"]]

(* Fault for C40: the NAT check runs whatever the flag says *)
checkNATAddressIfAllowed_M(s, in) == checkNATAddress(s, in)

(* SIPAccount::onRegister, "allowIPAutoRewrite_ and checkNATAddress(..)" *)
checkNATAddressIfAllowed(s, in) ==
    IF s.allowIPAutoRewrite_ THEN checkNATAddress(s, in) ELSE s

(* Fault for C10: the expiration is compared with 1 by <= *)
onRegisterSuccess_M(s, in) ==
    LET s1 == resetAutoRegistration(s)
    IN  IF in.expiration <= 1
           THEN setRegistrationState(destroyRegistrationInfo(s1), "UNREGISTERED")
           ELSE setRegistrationState(
                    IF s1.allowIPAutoRewrite_ THEN checkNATAddress(s1, in) ELSE s1,
                    "REGISTERED")

(* SIPAccount::onRegister, the branch of a 2xx status code *)
onRegisterSuccess(s, in) ==
    LET s1 == resetAutoRegistration(s)
    IN  IF in.expiration < 1
           THEN setRegistrationState(destroyRegistrationInfo(s1), "UNREGISTERED")
           ELSE setRegistrationState(checkNATAddressIfAllowed(s1, in), "REGISTERED")

(* Fault for C38: every callback is taken for the current structure *)
StaleCallback_M(s, in) == FALSE

(* SIPAccount::onRegister, param->regc != getRegistrationInfo() *)
StaleCallback(s, in) == in.regc # s.regc_

(* Fault for C24: the expiration the registrar returned is taken over      *)
onRegister_M(s, in) ==
    IF in.regc # s.regc_ THEN [s EXCEPT !.dropped = in.regc]
    ELSE
      LET s1 == IF ~in.ok
                   THEN setRegistrationState(destroyRegistrationInfo(s), "ERROR_GENERIC")
                ELSE IF in.code < 0 \/ in.code >= 300
                   THEN setRegistrationState(destroyRegistrationInfo(s),
                                             RegistrationErrorState(in.code))
                ELSE IF PJSIP_IS_STATUS_IN_CLASS(in.code, 200)
                   THEN onRegisterSuccess(s, in)
                ELSE s
          s2 == IF NeedsAutoRetry(in.code) THEN scheduleReregistration(s1, in) ELSE s1
      IN  IF in.expiration # s2.registrationExpire_
             THEN [s2 EXCEPT !.registrationExpire_ = in.expiration]
             ELSE s2

(* SIPAccount::onRegister.  in.regc, in.ok (param->status == PJ_SUCCESS),  *)
(* in.code and in.expiration are the callback's parameter.                 *)
onRegister(s, in) ==
    IF StaleCallback(s, in) THEN [s EXCEPT !.dropped = in.regc]
    ELSE
      LET s1 == IF ~in.ok
                   THEN setRegistrationState(destroyRegistrationInfo(s), "ERROR_GENERIC")
                ELSE IF in.code < 0 \/ in.code >= 300
                   THEN setRegistrationState(destroyRegistrationInfo(s),
                                             RegistrationErrorState(in.code))
                ELSE IF PJSIP_IS_STATUS_IN_CLASS(in.code, 200)
                   THEN onRegisterSuccess(s, in)
                ELSE s
      IN  IF NeedsAutoRetry(in.code) THEN scheduleReregistration(s1, in) ELSE s1

(* pjsip_regc_create: the address of the new structure, which is not the   *)
(* address of the structure the account still holds.                       *)
NewRegc(s) ==
    CHOOSE r \in RegcIds : r # s.regc_ /\ \A q \in RegcIds : q # s.regc_ => r <= q

(* SIPAccount::sendRegister.  The request is sent before setRegistrationInfo *)
(* destroys the structure the account held; pjsip_regc_destroy of a        *)
(* structure that awaits a response only drops its callback, the request   *)
(* stays with the registrar.  in.regFail names the pjsip call that fails:  *)
(* "create" (pjsip_regc_create), "build" (set_via_sent_by, regc_init,      *)
(* regc_register, regc_set_transport), "send" (pjsip_regc_send).  Between  *)
(* "build" and "send", setUpTransmissionData reads                         *)
(* tp_sel.u.transport->key.type, a null dereference without a transport.   *)
(* in.early: the thread that runs pjsip's callbacks delivers the response  *)
(* to the request (in.ok, in.code, in.expiration) after pjsip_regc_send    *)
(* and before setRegistrationInfo; onRegister takes no lock.               *)
sendRegister(s, in) ==
    IF ~isUsable(s) THEN s
    ELSE
      LET s1 == setRegistrationState(setRegister(s, TRUE), "TRYING")
          regc == NewRegc(s1)
      IN  IF in.regFail \in {"create", "build"}
             THEN Failed([s1 EXCEPT !.exc = TRUE], "register")
          ELSE IF s1.transport_ = 0 THEN [s1 EXCEPT !.crashed = TRUE]
          ELSE IF in.regFail = "send" THEN Failed([s1 EXCEPT !.exc = TRUE], "register")
          ELSE
            LET s2 == [s1 EXCEPT !.has_tsx[regc] = "REGISTER",
                                 !.sent = Append(@, "REGISTER"),
                                 !.racing = @ \/ (s1.regc_ # 0
                                                  /\ s1.has_tsx[s1.regc_] = "REGISTER")]
                s3 == IF in.early
                         THEN onRegister([s2 EXCEPT !.has_tsx[regc] = "none"],
                                         [in EXCEPT !.regc = regc])
                         ELSE s2
            IN  setRegistrationInfo(s3, regc)

(* SIPAccount::sendUnregister.  in.unregFail: "build" (pjsip_regc_unregister, *)
(* pjsip_regc_set_transport) or "send" (pjsip_regc_send, which also        *)
(* refuses with PJSIP_EBUSY while the structure awaits a response).        *)
sendUnregister(s, in) ==
    IF ~isRegistered(s) THEN setRegistrationState(s, "UNREGISTERED")
    ELSE
      LET s1 == setRegister(s, FALSE)
      IN  IF s1.regc_ = 0 THEN [s1 EXCEPT !.exc = TRUE]
          ELSE IF in.unregFail = "build" THEN [s1 EXCEPT !.exc = TRUE]
          ELSE IF s1.transport_ = 0 THEN [s1 EXCEPT !.crashed = TRUE]
          ELSE IF in.unregFail = "send" \/ s1.has_tsx[s1.regc_] # "none"
                  THEN [s1 EXCEPT !.exc = TRUE]
          ELSE [s1 EXCEPT !.has_tsx[s1.regc_] = "unREGISTER",
                          !.sent = Append(@, "unREGISTER")]

(* SIPAccount::doRegister2_, transport_.reset(): the account lets go of    *)
(* its transport without removeStateListener.  The listener goes with the  *)
(* transport when the account was its last owner; it stays when a call or  *)
(* the broker still holds the transport (in.tpHeld).                       *)
resetTransport(s, in) ==
    Wrote([s EXCEPT !.transport_ = 0,
                    !.listeners = IF in.tpHeld THEN @ ELSE @ \ {s.transport_}],
          "transport_")

(* SIPAccount::doRegister2_.  in.bindOk: createBindingAddress gives an     *)
(* address; in.lsnOk: getTlsListener gives a listener; in.tp: the transport *)
(* the broker hands out (0 is none).                                       *)
doRegister2_(s, in) ==
    IF ~isIP2IP(s) /\ ~s.hostIp_
       THEN setRegistrationState(Failed(s, "resolve"), "ERROR_GENERIC")
    ELSE IF ~in.bindOk THEN setRegistrationState(Failed(s, "bind"), "ERROR_GENERIC")
    ELSE IF s.tlsEnable_ /\ ~s.tlsListener_ /\ ~in.lsnOk
            THEN setRegistrationState(Failed(s, "tls"), "ERROR_GENERIC")
    ELSE
      LET s1 == [s EXCEPT !.tlsListener_ = s.tlsEnable_]
      IN  IF isIP2IP(s1)
             THEN setRegistrationState(
                      IF ~s1.tlsEnable_
                         THEN setTransport(IF in.tp = 0 THEN Failed(s1, "transport")
                                                        ELSE s1,
                                           in.tp, in)
                         ELSE s1,
                      "REGISTERED")
             ELSE
               LET s2 == setTransport(resetTransport(s1, in), in.tp, in)
                   s3 == sendRegister(s2, in)
               IN  IF s2.transport_ = 0
                      THEN setRegistrationState(Failed(s2, "transport"), "ERROR_GENERIC")
                   ELSE IF s3.exc
                      THEN setRegistrationState([s3 EXCEPT !.exc = FALSE], "ERROR_GENERIC")
                   ELSE s3

(* SIPAccount::doRegister1_ and the start of resolveSrvName *)
doRegister1_(s, in) ==
    IF isIP2IP(s) THEN Unlock(doRegister2_(Lock(s), in), s)
    ELSE [s EXCEPT !.resolving = @ + 1]

(* SIPAccount::doRegister1_, the resolveSrvName callback *)
onResolved(s, in) ==
    IF in.hostIpsEmpty
       THEN Unlock(setRegistrationState(Failed(Lock(s), "resolve"), "ERROR_GENERIC"), s)
    ELSE Unlock(doRegister2_([Lock(s) EXCEPT !.hostIp_ = TRUE], in), s)

(* SIPAccount::mapPortUPnP: in.upnpRes is what reserveMapping returns      *)
(* ("null" or the state of the mapping); the result is TRUE for OPEN.      *)
mapPortUPnP(s, in) == [s EXCEPT !.upnpCb = @ \/ in.upnpRes # "null"]

(* SIPAccount::mapPortUPnP, its return value *)
mapPortUPnPResult(in) == in.upnpRes = "OPEN"

(* SIPAccount::doRegister *)
doRegister(s, in) ==
    IF ~isUsable(s) THEN s
    ELSE IF s.upnpCtrl_
      THEN LET s1 == mapPortUPnP(setRegistrationState(s, "TRYING"), in)
           IN  IF ~mapPortUPnPResult(in) THEN doRegister1_(s1, in) ELSE s1
    ELSE doRegister1_(s, in)

(* SIPAccount::doUnregister, the call released_cb(not isIP2IP()): what the *)
(* callback is given and finds, and whether the call of doUnregister took  *)
(* a transport from the account (s0 is the account at its entry)           *)
ReleasedCall(s, s0) ==
    [arg |-> ~isIP2IP(s),
     freed |-> s0.transport_ # 0 /\ s.transport_ = 0,
     transport_ |-> s.transport_,
     active |-> s.auto_rereg_.active,
     attempt_cnt |-> s.auto_rereg_.attempt_cnt,
     locked |-> s.locked]

(* SIPAccount::doUnregister; in.cb says that released_cb is set.  What the *)
(* callback does is the caller's.                                          *)
doUnregister(s, in) ==
    LET s1 == [Lock(s) EXCEPT !.tlsListener_ = FALSE]
        s2 == IF ~isIP2IP(s1) THEN [sendUnregister(s1, in) EXCEPT !.exc = FALSE] ELSE s1
        s3 == IF s2.transport_ # 0 THEN setTransport(s2, 0, in) ELSE s2
        s4 == Unlock(resetAutoRegistration(s3), s)
    IN  IF in.cb /\ ~s4.crashed
           THEN [s4 EXCEPT !.released = Append(@, ReleasedCall(s4, s))]
           ELSE s4

(* SIPAccount::~SIPAccount *)
SIPAccount_dtor(s, in) == setTransport(destroyRegistrationInfo(s), 0, in)

(* SIPAccount::connectivityChanged *)
connectivityChanged(s, in) ==
    IF ~isUsable(s) THEN s
    ELSE LET s1 == doUnregister(s, [in EXCEPT !.cb = TRUE])
         IN  IF isUsable(s1) THEN doRegister(s1, in) ELSE s1

(* SIPAccount::mapPortUPnP, the notify callback.  in.mapState is the state *)
(* of the mapping, in.portChanged is oldPort != newPort.                   *)
onMappingNotify(s, in) ==
    LET success == in.mapState \in {"OPEN", "IN_PROGRESS"}
    IN  IF ~success /\ ~isRegistered(s) THEN doRegister1_(s, in)
        ELSE doRegister1_(IF in.portChanged \/ s.registrationState_ # "REGISTERED"
                             THEN s
                             ELSE connectivityChanged(s, in),
                          in)

(* Fault for C33: a REGISTER that fails from the timer schedules nothing *)
autoReregTimerCb_M(s, in) ==
    IF ~s.auto_rereg_.active THEN s
    ELSE [sendRegister(Wrote([s EXCEPT !.auto_rereg_.attempt_cnt = @ + 1],
                             "auto_rereg_"), in) EXCEPT !.exc = FALSE]

(* SIPAccount::autoReregTimerCb *)
autoReregTimerCb(s, in) ==
    IF ~s.auto_rereg_.active THEN s
    ELSE
      LET s1 == sendRegister(Wrote([s EXCEPT !.auto_rereg_.attempt_cnt = @ + 1],
                                   "auto_rereg_"), in)
      IN  IF s1.exc THEN scheduleReregistration([s1 EXCEPT !.exc = FALSE], in)
          ELSE s1

(* SIPAccount::scheduleReregistration, the lambda in auto_rereg_.timer.cb: *)
(* it dereferences timer.user_data, which resetAutoRegistration leaves     *)
(* null while the entry is still in the heap.                              *)
onTimer(s, in) ==
    IF ~s.auto_rereg_.user_data THEN [s EXCEPT !.crashed = TRUE]
    ELSE autoReregTimerCb(s, in)

(* Fault for C31: a transport that is alive leaves the stored error *)
onTransportStateChanged_M(s, in) ==
    IF ~in.alive
       THEN setTransport(
                setRegistrationState(
                    [s EXCEPT !.transportError_ = IF in.info THEN "error" ELSE ""],
                    "ERROR_GENERIC"),
                0, in)
       ELSE s

(* SIPAccount::onTransportStateChanged.  in.alive is                       *)
(* SipTransport::isAlive(state), in.info says that the callback comes with *)
(* a pjsip_transport_state_info, whose status is then an error.            *)
onTransportStateChanged(s, in) ==
    IF ~in.alive
       THEN setTransport(
                setRegistrationState(
                    [s EXCEPT !.transportError_ = IF in.info THEN "error" ELSE ""],
                    "ERROR_GENERIC"),
                0, in)
       ELSE [s EXCEPT !.transportError_ = ""]

-----------------------------------------------------------------------------
(* What the environment hands to a handler; each action draws the fields   *)
(* its handler reads and leaves the others at these values.                *)
In0 == [regc |-> 0, ok |-> TRUE, code |-> 0, expiration |-> 0,
        regFail |-> "none", unregFail |-> "none",
        bindOk |-> TRUE, lsnOk |-> TRUE, tp |-> 1,
        upnpRes |-> "OPEN", mapState |-> "OPEN", portChanged |-> FALSE,
        hostIpsEmpty |-> FALSE, alive |-> TRUE, tpHeld |-> TRUE, early |-> FALSE,
        info |-> FALSE, cb |-> FALSE,
        stunEnabled_ |-> FALSE, stun |-> NoAddr, receivedParameter_ |-> "",
        rPort_ |-> -1,
        jz |-> 0, jp |-> 0, timerOk |-> TRUE,
        local |-> [ip |-> "203.0.113.5", port |-> 5060], upnp |-> NoAddr,
        recvd_param |-> "", sent_by |-> [host |-> "203.0.113.5", port |-> 5060],
        rport_param |-> 0, src_name |-> "198.51.100.7"]

RegFails == {"none", "create", "build", "send"}
UnregFails == {"none", "build", "send"}
MappingStates == {"OPEN", "IN_PROGRESS", "FAILED"}

(* The account at the entry of a handler, as far as a claim refers to it *)
NoPre == [state |-> "", registered |-> FALSE, had_regc |-> FALSE, attempts |-> 0]

(* The record of the handler that ran last: its name, the callback         *)
(* parameter it was given, whether the resolver gave it no address,        *)
(* whether the transport was reported alive, whether doRegister or the     *)
(* notify callback found the UPnP mapping in progress, and the account it  *)
(* started from (the attempt counter for onRegister; state, registered     *)
(* flag and registration structure for doUnregister).  to and id are the   *)
(* destination and message id of a message handler.                        *)
Last(op, in) ==
    [op |-> op, ok |-> in.ok, code |-> in.code, expiration |-> in.expiration,
     hostIpsEmpty |-> in.hostIpsEmpty, alive |-> in.alive, to |-> "", id |-> 0,
     inProgress |-> \/ op = "doRegister" /\ in.upnpRes = "IN_PROGRESS"
                    \/ op = "onMappingNotify" /\ in.mapState = "IN_PROGRESS",
     pre |-> IF op = "doUnregister"
                THEN [NoPre EXCEPT !.state = registrationState_,
                                   !.registered = bRegister_,
                                   !.had_regc = regc_ # 0]
             ELSE IF op = "onRegister"
                THEN [NoPre EXCEPT !.attempts = auto_rereg_.attempt_cnt]
             ELSE NoPre]

(* A handler ran from the current state and left r.  A null dereference    *)
(* ends the process where it stood.                                        *)
Commit(op, in, left) ==
  \E r \in {left} :
    /\ ~crashed
    /\ ~destroyed
    /\ destroyed' = (op = "~SIPAccount")
    /\ r.resolving <= MaxResolving
    /\ r.auto_rereg_.attempt_cnt <= MaxAttempt
    /\ last' = Last(op, in)
    /\ UNCHANGED <<hostname_, upnpCtrl_, tlsEnable_, allowIPAutoRewrite_>>
    /\ UNCHANGED msgVars
    /\ IF r.crashed
          THEN /\ crashed' = TRUE
               /\ sent' = <<>> /\ sched' = <<>> /\ delay' = [sec |-> 0, msec |-> 0]
               /\ nat' = NoNat
               /\ racing' = FALSE
               /\ unlocked' = {}
               /\ dropped' = 0
               /\ failed' = ""
               /\ released' = <<>>
               /\ contactFrom' = <<>>
               /\ UNCHANGED <<enabled_, active_, registrationState_, bRegister_, regc_,
                              transport_, hostIp_, tlsListener_, auto_rereg_, has_tsx,
                              timerHeap, listeners, upnpCb, resolving,
                              contactAddress_, contactHeader_, via_addr_, via_tp_,
                              publishedSameasLocal_, publishedIpAddress_,
                              registrationExpire_, transportError_,
                              publishedPort_>>
          ELSE /\ crashed' = FALSE
               /\ enabled_' = r.enabled_
               /\ active_' = r.active_
               /\ registrationState_' = r.registrationState_
               /\ bRegister_' = r.bRegister_
               /\ regc_' = r.regc_
               /\ transport_' = r.transport_
               /\ hostIp_' = r.hostIp_
               /\ tlsListener_' = r.tlsListener_
               /\ auto_rereg_' = r.auto_rereg_
               /\ has_tsx' = r.has_tsx
               /\ timerHeap' = r.timerHeap
               /\ listeners' = r.listeners
               /\ upnpCb' = r.upnpCb
               /\ resolving' = r.resolving
               /\ sent' = r.sent
               /\ sched' = r.sched
               /\ delay' = r.delay
               /\ contactAddress_' = r.contactAddress_
               /\ contactHeader_' = r.contactHeader_
               /\ via_addr_' = r.via_addr_
               /\ via_tp_' = r.via_tp_
               /\ publishedSameasLocal_' = r.publishedSameasLocal_
               /\ publishedIpAddress_' = r.publishedIpAddress_
               /\ nat' = r.nat
               /\ racing' = r.racing
               /\ unlocked' = r.unlocked
               /\ registrationExpire_' = r.registrationExpire_
               /\ dropped' = r.dropped
               /\ failed' = r.failed
               /\ transportError_' = r.transportError_
               /\ released' = r.released
               /\ publishedPort_' = r.publishedPort_
               /\ contactFrom' = r.contactFrom

InitAccount ==
    /\ hostname_ \in {"", "registrar"}
    /\ upnpCtrl_ \in BOOLEAN
    /\ tlsEnable_ \in BOOLEAN
    /\ enabled_ = TRUE
    /\ active_ = TRUE
    /\ registrationState_ = "UNREGISTERED"
    /\ bRegister_ = FALSE
    /\ regc_ = 0
    /\ transport_ = 0
    /\ hostIp_ = FALSE
    /\ tlsListener_ = FALSE
    /\ auto_rereg_ = [active |-> FALSE, timer_id |-> FALSE, user_data |-> FALSE,
                      attempt_cnt |-> 0]
    /\ has_tsx = [r \in RegcIds |-> "none"]
    /\ timerHeap = 0
    /\ listeners = {}
    /\ upnpCb = FALSE
    /\ resolving = 0
    /\ crashed = FALSE
    /\ sent = <<>>
    /\ sched = <<>>
    /\ delay = [sec |-> 0, msec |-> 0]
    /\ last = [op |-> "init", ok |-> TRUE, code |-> 0, expiration |-> 0,
               hostIpsEmpty |-> FALSE, alive |-> TRUE, to |-> "", id |-> 0,
               inProgress |-> FALSE, pre |-> NoPre]
    /\ contactAddress_ = NoAddr
    /\ contactHeader_ = NoHeader
    /\ via_addr_ = [host |-> "", port |-> 0]
    /\ via_tp_ = 0
    /\ publishedSameasLocal_ = TRUE
    /\ publishedIpAddress_ = ""
    /\ nat = NoNat
    /\ racing = FALSE
    /\ unlocked = {}
    /\ destroyed = FALSE
    /\ registrationExpire_ = DEFAULT_REGISTRATION_EXPIRE
    /\ dropped = 0
    /\ failed = ""
    /\ transportError_ = ""
    /\ released = <<>>
    /\ publishedPort_ = 5060
    /\ contactFrom = <<>>

(* No MESSAGE request has been sent *)
InitMessages ==
    /\ pending = {}
    /\ reports = <<>>
    /\ nextId = 1
    /\ credsGiven = [creds |-> <<>>, md5HashingEnabled |-> FALSE]

Init ==
    /\ InitAccount
    /\ allowIPAutoRewrite_ = FALSE
    /\ cred_ = <<>>
    /\ credentials_ = <<>>
    /\ InitMessages

(* Account::setEnabled *)
SetEnabled ==
    \E b \in BOOLEAN :
        /\ b # enabled_
        /\ Commit("setEnabled", In0, [S EXCEPT !.enabled_ = b])

(* The inputs a handler can read in the current configuration: the       *)
(* direct-IP profile goes on to doRegister2_ at once, a registrar account  *)
(* only starts the resolver.                                               *)
BindIns == IF hostname_ = "" THEN BOOLEAN ELSE {TRUE}
LsnIns == IF hostname_ = "" /\ tlsEnable_ THEN BOOLEAN ELSE {TRUE}
TpIns == IF hostname_ = "" /\ ~tlsEnable_ THEN {0} \cup Transports ELSE {1}
UpnpIns == IF upnpCtrl_ THEN {"null"} \cup MappingStates ELSE {"OPEN"}
UnregIns == IF hostname_ # "" /\ bRegister_ /\ regc_ # 0 THEN UnregFails ELSE {"none"}

(* doRegister() *)
DoRegister ==
    \E bindOk \in BindIns, lsnOk \in LsnIns, tp \in TpIns, upnpRes \in UpnpIns :
        LET in == [In0 EXCEPT !.bindOk = bindOk, !.lsnOk = lsnOk,
                              !.tp = tp, !.upnpRes = upnpRes]
        IN  Commit("doRegister", in, doRegister(S, in))

(* doUnregister(released_cb), with a completion callback or without *)
DoUnregister ==
    \E unregFail \in UnregIns, cb \in BOOLEAN :
        LET in == [In0 EXCEPT !.unregFail = unregFail, !.cb = cb]
        IN  Commit("doUnregister", in, doUnregister(S, in))

(* connectivityChanged() *)
ConnectivityChanged ==
    \E unregFail \in UnregIns, bindOk \in BindIns, lsnOk \in LsnIns,
       tp \in TpIns, upnpRes \in UpnpIns :
        LET in == [In0 EXCEPT !.unregFail = unregFail,
                              !.bindOk = bindOk, !.lsnOk = lsnOk, !.tp = tp,
                              !.upnpRes = upnpRes]
        IN  Commit("connectivityChanged", in, connectivityChanged(S, in))

(* The resolver delivers its result *)
OnResolved ==
    /\ resolving > 0
    /\ \E hostIpsEmpty \in BOOLEAN :
       \E bindOk \in (IF hostIpsEmpty THEN {TRUE} ELSE BOOLEAN),
          lsnOk \in (IF hostIpsEmpty \/ ~tlsEnable_ THEN {TRUE} ELSE BOOLEAN),
          tp \in (IF hostIpsEmpty THEN {1} ELSE {0} \cup Transports) :
       \E regFail \in (IF hostIpsEmpty \/ ~bindOk \/ ~lsnOk \/ tp = 0 \/ ~isUsable(S)
                          THEN {"none"} ELSE RegFails),
          tpHeld \in (IF hostIpsEmpty \/ ~bindOk \/ ~lsnOk \/ transport_ = 0
                         THEN {TRUE} ELSE BOOLEAN) :
        LET in == [In0 EXCEPT !.hostIpsEmpty = hostIpsEmpty, !.bindOk = bindOk,
                              !.lsnOk = lsnOk, !.tp = tp, !.regFail = regFail,
                              !.tpHeld = tpHeld]
        IN  Commit("onResolved", in, onResolved([S EXCEPT !.resolving = @ - 1], in))

(* The UPnP controller notifies the state of the mapping *)
OnMappingNotify ==
    /\ upnpCb
    /\ \E mapState \in MappingStates, portChanged \in BOOLEAN,
          bindOk \in BindIns, lsnOk \in LsnIns, tp \in TpIns :
       \E unregFail \in (IF portChanged \/ registrationState_ # "REGISTERED"
                            THEN {"none"} ELSE UnregIns),
          upnpRes \in (IF portChanged \/ registrationState_ # "REGISTERED"
                          THEN {"OPEN"} ELSE UpnpIns) :
        LET in == [In0 EXCEPT !.mapState = mapState, !.portChanged = portChanged,
                              !.bindOk = bindOk, !.lsnOk = lsnOk, !.tp = tp,
                              !.unregFail = unregFail, !.upnpRes = upnpRes]
        IN  Commit("onMappingNotify", in, onMappingNotify(S, in))

(* registration_cb: pjsip reports the outcome of the request a structure   *)
(* was waiting for, with a status code of the set codes.                   *)
OnRegisterWith(codes) ==
    \E regc \in RegcIds, ok \in BOOLEAN, code \in codes :
        /\ has_tsx[regc] # "none"
        /\ \E expiration \in (IF ok /\ PJSIP_IS_STATUS_IN_CLASS(code, 200)
                                 THEN Expirations ELSE {0}),
              jz \in (IF NeedsAutoRetry(code) THEN JitterDrawn ELSE {0}),
              timerOk \in (IF NeedsAutoRetry(code) THEN BOOLEAN ELSE {TRUE}) :
            LET in == [In0 EXCEPT !.regc = regc, !.ok = ok, !.code = code,
                                  !.expiration = expiration, !.jz = jz,
                                  !.timerOk = timerOk]
            IN  Commit("onRegister", in,
                       onRegister([S EXCEPT !.has_tsx[regc] = "none"], in))

(* registration_cb with one status code of each kind of outcome *)
OnRegister == OnRegisterWith(CodesMain)

(* registration_cb with every status code of Codes *)
OnRegisterAll == OnRegisterWith(Codes)

(* pjsip refreshes the registration of a structure created with auto-      *)
(* refresh (pjsip_regc_register(regc, isRegistrationRefreshEnabled(), ..)) *)
RegcRefresh ==
    /\ regc_ # 0
    /\ has_tsx[regc_] = "none"
    /\ Commit("regcRefresh", In0, [S EXCEPT !.has_tsx[regc_] = "REGISTER"])

(* The timer heap fires auto_rereg_.timer *)
OnTimer ==
    /\ timerHeap > 0
    /\ \E regFail \in (IF auto_rereg_.active /\ auto_rereg_.user_data /\ isUsable(S)
                          THEN RegFails ELSE {"none"}) :
       \E jz \in (IF regFail = "none" THEN {0} ELSE JitterDrawn),
          timerOk \in (IF regFail = "none" THEN {TRUE} ELSE BOOLEAN) :
        LET in == [In0 EXCEPT !.regFail = regFail, !.jz = jz, !.timerOk = timerOk]
        IN  Commit("onTimer", in, onTimer([S EXCEPT !.timerHeap = @ - 1], in))

(* A transport the account listens to reports its state *)
OnTransportStateChanged ==
    /\ listeners # {}
    /\ \E alive \in BOOLEAN :
        LET in == [In0 EXCEPT !.alive = alive]
        IN  Commit("onTransportStateChanged", in, onTransportStateChanged(S, in))

Next ==
    \/ SetEnabled
    \/ DoRegister
    \/ DoUnregister
    \/ ConnectivityChanged
    \/ OnResolved
    \/ OnMappingNotify
    \/ OnRegister
    \/ RegcRefresh
    \/ OnTimer
    \/ OnTransportStateChanged

Spec == Init /\ [][Next]_vars

(* The registrar account without UPnP and TLS, answered with every status  *)
(* code of Codes.                                                          *)
InitCb == Init /\ hostname_ = "registrar" /\ ~upnpCtrl_ /\ ~tlsEnable_

NextCb ==
    \/ SetEnabled
    \/ DoRegister
    \/ DoUnregister
    \/ ConnectivityChanged
    \/ OnResolved
    \/ OnRegisterAll
    \/ RegcRefresh
    \/ OnTimer
    \/ OnTransportStateChanged

SpecCb == InitCb /\ [][NextCb]_vars

TypeOK ==
    /\ registrationState_ \in RegistrationState
    /\ regc_ \in {0} \cup RegcIds
    /\ transport_ \in {0} \cup Transports
    /\ timerHeap \in Nat

-----------------------------------------------------------------------------
(* Instant messages: SIPAccount::sendMessage and SIPAccount::onComplete    *)

Destinations == {"", "alice", "bob"}
InitialCSeqs == {0, 41}
MsgCodes == {PJSIP_SC_OK, PJSIP_SC_ACCEPTED, PJSIP_SC_UNAUTHORIZED, PJSIP_SC_NOT_FOUND,
             PJSIP_SC_PROXY_AUTHENTICATION_REQUIRED, PJSIP_SC_SERVICE_UNAVAILABLE}
MsgFails == {"none", "create", "auth_init", "set_credentials", "set_transport", "send"}

(* Fault for C35: the report does not carry the id of the message *)
onMessageSent_M(log, to, id, ok) == Append(log, [to |-> to, id |-> 0, ok |-> ok])

(* messageEngine_.onMessageSent(to, id, ok) *)
onMessageSent(log, to, id, ok) == Append(log, [to |-> to, id |-> id, ok |-> ok])

(* The record of the message handler that ran last *)
LastMsg(op, code) ==
    [op |-> op, ok |-> TRUE, code |-> code, expiration |-> 0,
     hostIpsEmpty |-> FALSE, alive |-> TRUE, to |-> "", id |-> 0,
     inProgress |-> FALSE, pre |-> NoPre]

(* The credential lists given to setCredentials: a map without a key      *)
(* gives the empty string                                                  *)
CredLists ==
    {<<>>,
     <<[realm |-> "*", username |-> "alice", password |-> "pw"]>>,
     <<[realm |-> "registrar", username |-> "alice", password |-> "pw"],
       [realm |-> "", username |-> "bob", password |-> ""]>>}

(* SIPAccount::Credentials::computePasswordHash: MD5(username:realm:password) *)
computePasswordHash(c) ==
    [c EXCEPT !.password_h = <<"md5", c.username, c.realm, c.password>>]

(* SIPAccount::setCredentials, the entry of credentials_ for one map *)
NewCredential(cred, md5HashingEnabled) ==
    LET c == [realm |-> cred.realm, username |-> cred.username,
              password |-> cred.password, password_h |-> <<>>]
    IN  IF md5HashingEnabled THEN computePasswordHash(c) ELSE c

(* SIPAccount::setCredentials, the pjsip_cred_info for one entry *)
NewCredInfo(c) ==
    [realm |-> c.realm, scheme |-> "digest", username |-> c.username,
     data_type |-> IF c.password_h = <<>> THEN "PJSIP_CRED_DATA_PLAIN_PASSWD"
                                          ELSE "PJSIP_CRED_DATA_DIGEST",
     data |-> IF c.password_h = <<>> THEN <<c.password>> ELSE c.password_h]

(* Fault for C37: the stored hash is given back in place of the password *)
getCredentials_M(credentials) ==
    [i \in 1..Len(credentials) |->
        [realm |-> credentials[i].realm, username |-> credentials[i].username,
         password |-> IF credentials[i].password_h = <<>>
                         THEN credentials[i].password
                         ELSE credentials[i].password_h]]

(* SIPAccount::getCredentials on the list credentials_ *)
getCredentials(credentials) ==
    [i \in 1..Len(credentials) |->
        [realm |-> credentials[i].realm, username |-> credentials[i].username,
         password |-> credentials[i].password]]

(* Fault for C16: the empty list is stored like any other *)
setCredentials_M(st, creds, md5HashingEnabled) ==
    LET cs == [i \in 1..Len(creds) |-> NewCredential(creds[i], md5HashingEnabled)]
    IN  [credentials_ |-> cs, cred_ |-> [i \in 1..Len(creds) |-> NewCredInfo(cs[i])]]

(* SIPAccount::setCredentials on the lists st = (credentials_, cred_) *)
setCredentials(st, creds, md5HashingEnabled) ==
    IF creds = <<>> THEN st
    ELSE
      LET cs == [i \in 1..Len(creds) |-> NewCredential(creds[i], md5HashingEnabled)]
      IN  [credentials_ |-> cs, cred_ |-> [i \in 1..Len(creds) |-> NewCredInfo(cs[i])]]

(* setCredentials(creds); the record of the handler keeps the length of    *)
(* the list in its code field                                              *)
SetCredentials ==
    /\ ~crashed
    /\ \E creds \in CredLists, md5HashingEnabled \in BOOLEAN :
        LET st == setCredentials([credentials_ |-> credentials_, cred_ |-> cred_],
                                 creds, md5HashingEnabled)
        IN  /\ credentials_' = st.credentials_
            /\ cred_' = st.cred_
            /\ last' = LastMsg("setCredentials", Len(creds))
            /\ credsGiven' = [creds |-> creds, md5HashingEnabled |-> md5HashingEnabled]
    /\ UNCHANGED <<pending, reports, nextId, crashed>>
    /\ UNCHANGED accVars

(* SIPAccount::sendMessage(to, payloads, id).  fail names the pjsip call   *)
(* that fails; cseq is the CSeq pjsip_endpt_create_request gives the       *)
(* request.  getCredInfo() is cred_.data() and the realm of the first       *)
(* record is written through it; for an empty cred_ the pointer is null    *)
(* (nullData) or points to reserved storage that holds no record.          *)
SendMessage ==
    /\ ~crashed
    /\ nextId <= MaxMsgs
    /\ \E to \in Destinations, hasPayload \in BOOLEAN, fail \in MsgFails,
          cseq \in InitialCSeqs, nullData \in BOOLEAN :
        /\ nextId' = nextId + 1
        /\ last' = [LastMsg("sendMessage", 0) EXCEPT !.to = to, !.id = nextId]
        /\ IF to = "" \/ ~hasPayload \/ fail = "create"
              THEN /\ reports' = onMessageSent(reports, to, nextId, FALSE)
                   /\ UNCHANGED <<cred_, pending, crashed>>
           ELSE IF cred_ = <<>> /\ nullData
              THEN /\ crashed' = TRUE
                   /\ UNCHANGED <<cred_, pending, reports>>
           ELSE /\ cred_' = IF cred_ = <<>> THEN cred_
                                            ELSE [cred_ EXCEPT ![1].realm = hostname_]
                /\ crashed' = FALSE
                /\ IF fail # "none"
                      THEN /\ reports' = onMessageSent(reports, to, nextId, FALSE)
                           /\ UNCHANGED pending
                      ELSE /\ pending' = pending \cup
                                  {[to |-> to, id |-> nextId, cseq |-> cseq,
                                    cseq0 |-> cseq, resends |-> 0]}
                           /\ UNCHANGED reports
    /\ UNCHANGED <<credentials_, credsGiven>>
    /\ UNCHANGED accVars

(* SIPAccount::onComplete(token, event) for the request of ctx c, answered *)
(* with status code code.  reinitOk is the status of                       *)
(* pjsip_auth_clt_reinit_req, sendOk that of pjsip_endpt_send_request.     *)
OnComplete ==
    /\ ~crashed
    /\ \E c \in pending, code \in MsgCodes, reinitOk \in BOOLEAN, sendOk \in BOOLEAN :
        /\ last' = [LastMsg("onComplete", code) EXCEPT !.to = c.to, !.id = c.id]
        /\ IF code \in {PJSIP_SC_UNAUTHORIZED, PJSIP_SC_PROXY_AUTHENTICATION_REQUIRED}
              THEN IF reinitOk
                      THEN IF sendOk
                              THEN /\ c.resends < MaxResend
                                   /\ pending' = (pending \ {c}) \cup
                                          {[c EXCEPT !.cseq = @ + 1,
                                                     !.resends = @ + 1]}
                                   /\ UNCHANGED reports
                              ELSE /\ pending' = pending \ {c}
                                   /\ reports' = onMessageSent(reports, c.to, c.id, FALSE)
                      ELSE /\ pending' = pending \ {c}
                           /\ reports' = onMessageSent(reports, c.to, c.id, FALSE)
              ELSE /\ pending' = pending \ {c}
                   /\ reports' = onMessageSent(reports, c.to, c.id,
                                               code \in {PJSIP_SC_OK, PJSIP_SC_ACCEPTED})
    /\ UNCHANGED <<cred_, credentials_, nextId, credsGiven, crashed>>
    /\ UNCHANGED accVars


(* The account as constructed, with a registrar or none *)
InitMsg ==
    /\ InitAccount
    /\ ~upnpCtrl_
    /\ ~tlsEnable_
    /\ allowIPAutoRewrite_ = FALSE
    /\ cred_ = <<>>
    /\ credentials_ = <<>>
    /\ InitMessages

NextMsg ==
    \/ SetCredentials
    \/ SendMessage
    \/ OnComplete

SpecMsg == InitMsg /\ [][NextMsg]_vars

-----------------------------------------------------------------------------
(* The end of the account: a registrar account that is destroyed           *)

(* The last owner drops the account: ~SIPAccount() *)
Destroy ==
    /\ ~destroyed
    /\ Commit("~SIPAccount", In0, SIPAccount_dtor(S, In0))

(* The timer heap fires the entry of a destroyed account.  The entry and   *)
(* its callback context lie in the freed account: the callback runs on     *)
(* freed memory, and either faults or finds nothing to do.                 *)
OnTimerDestroyed ==
    /\ destroyed
    /\ ~crashed
    /\ timerHeap > 0
    /\ timerHeap' = timerHeap - 1
    /\ crashed' \in BOOLEAN
    /\ last' = Last("onTimerDestroyed", In0)
    /\ UNCHANGED <<hostname_, upnpCtrl_, tlsEnable_, enabled_, active_,
                   registrationState_, bRegister_, regc_, transport_, hostIp_,
                   tlsListener_, auto_rereg_, has_tsx, listeners, upnpCb, resolving,
                   sent, sched, delay, allowIPAutoRewrite_, contactAddress_,
                   contactHeader_, via_addr_, via_tp_, publishedSameasLocal_,
                   publishedIpAddress_, nat, racing, unlocked, destroyed,
                   registrationExpire_, dropped, failed, transportError_,
                   publishedPort_, contactFrom, released>>
    /\ UNCHANGED msgVars

NextLife ==
    \/ SetEnabled
    \/ DoRegister
    \/ DoUnregister
    \/ OnResolved
    \/ OnRegister
    \/ OnTimer
    \/ OnTransportStateChanged
    \/ Destroy
    \/ OnTimerDestroyed

SpecLife == InitCb /\ [][NextLife]_vars

-----------------------------------------------------------------------------
(* The response callback racing with sendRegister                          *)

(* The resolver delivers the registrar's address, and the registrar's      *)
(* answer to the REGISTER of this attempt may arrive while sendRegister    *)
(* has not yet recorded the structure                                      *)
OnResolvedRace ==
    /\ resolving > 0
    /\ \E early \in BOOLEAN :
       \E code \in (IF early THEN CodesMain ELSE {0}) :
       \E expiration \in (IF early /\ PJSIP_IS_STATUS_IN_CLASS(code, 200)
                             THEN Expirations ELSE {0}) :
        LET in == [In0 EXCEPT !.early = early, !.code = code,
                              !.expiration = expiration]
        IN  Commit("onResolved", in, onResolved([S EXCEPT !.resolving = @ - 1], in))

NextRace ==
    \/ DoRegister
    \/ DoUnregister
    \/ OnResolvedRace
    \/ OnRegister
    \/ OnTimer

SpecRace == InitCb /\ [][NextRace]_vars

-----------------------------------------------------------------------------
(* Transport loss with an error status                                     *)

(* A transport the account listens to reports its state, with or without   *)
(* a state info                                                            *)
OnTransportStateInfo ==
    /\ listeners # {}
    /\ \E alive \in BOOLEAN, info \in BOOLEAN :
        LET in == [In0 EXCEPT !.alive = alive, !.info = info /\ ~alive]
        IN  Commit("onTransportStateChanged", in, onTransportStateChanged(S, in))

NextTp ==
    \/ DoRegister
    \/ OnResolved
    \/ OnRegister
    \/ OnTransportStateInfo

SpecTp == InitCb /\ [][NextTp]_vars

-----------------------------------------------------------------------------
(* The retry loop: a registrar that answers every REGISTER with a code of  *)
(* onRegister's second switch, and an account that is registered once and  *)
(* then left to its timer.                                                 *)

RetryableCodes == {code \in Codes : NeedsAutoRetry(code)}

(* doRegister(), called once, on the account as constructed *)
DoRegisterOnce ==
    /\ last.op = "init"
    /\ DoRegister

(* registration_cb with a status code that asks for a retry *)
OnRegisterRetryable ==
    /\ ~destroyed
    /\ OnRegisterWith(RetryableCodes)

NextRetry ==
    \/ DoRegisterOnce
    \/ OnResolved
    \/ OnRegisterRetryable
    \/ OnTimer

(* pjsip's timer heap is polled by the event loop and fires an entry that  *)
(* is due; the registrar answers the request it was sent.                  *)
SpecRetry ==
    /\ InitCb
    /\ [][NextRetry]_vars
    /\ WF_vars(OnTimer)
    /\ WF_vars(OnRegisterRetryable)

-----------------------------------------------------------------------------
(* NAT reconciliation: a registrar account with allowIPAutoRewrite_ set    *)

LocalAddrs == {[ip |-> "203.0.113.5", port |-> 5060], [ip |-> "203.0.113.5", port |-> 0],
               [ip |-> "10.0.0.4", port |-> 5060], [ip |-> "2001:db8::1", port |-> 5060]}
RecvdParams == {"", "203.0.113.5", "203.0.113.9", "10.0.0.4", "2001:DB8::1"}
SentByHosts == {"203.0.113.5", "sip.example.org"}
RportParams == {0, 5060, 5062}
SentByPorts == {0, 5062}
SrcNames == {"198.51.100.7", "192.168.1.1"}

(* The resolver delivers the registrar's address and doRegister2_ sets the *)
(* transport, whose local address is one of LocalAddrs                     *)
OnResolvedNat ==
    /\ resolving > 0
    /\ \E local \in LocalAddrs :
        LET in == [In0 EXCEPT !.local = local]
        IN  Commit("onResolved", in, onResolved([S EXCEPT !.resolving = @ - 1], in))

(* registration_cb with a 200 response whose Via header and source are    *)
(* drawn from the sets above                                               *)
OnRegisterNat ==
    \E regc \in RegcIds, recvd_param \in RecvdParams, rport_param \in RportParams,
       src_name \in SrcNames :
        /\ has_tsx[regc] # "none"
        /\ \E host \in (IF recvd_param = "" THEN SentByHosts ELSE {"203.0.113.5"}),
              port \in (IF rport_param < 1 THEN SentByPorts ELSE {0}) :
            LET in == [In0 EXCEPT !.regc = regc, !.code = PJSIP_SC_OK,
                                  !.expiration = DEFAULT_REGISTRATION_EXPIRE,
                                  !.recvd_param = recvd_param,
                                  !.sent_by = [host |-> host, port |-> port],
                                  !.rport_param = rport_param, !.src_name = src_name]
            IN  Commit("onRegister", in,
                       onRegister([S EXCEPT !.has_tsx[regc] = "none"], in))

InitNat ==
    /\ InitAccount
    /\ hostname_ = "registrar"
    /\ ~upnpCtrl_
    /\ ~tlsEnable_
    /\ allowIPAutoRewrite_ = TRUE
    /\ cred_ = <<>>
    /\ credentials_ = <<>>
    /\ InitMessages

NextNat ==
    \/ DoRegister
    \/ OnResolvedNat
    \/ OnRegisterNat
    \/ RegcRefresh

SpecNat == InitNat /\ [][NextNat]_vars

-----------------------------------------------------------------------------
(* The contact address: a registrar account, with a UPnP controller or     *)
(* without, whose transport is set with every combination of what          *)
(* initContactAddress reads.                                               *)

UpnpAddrs == {NoAddr, [ip |-> "198.51.100.7", port |-> 5062]}
ReceivedParameters == {"", "192.168.1.1"}
RPorts == {-1, 5066}

(* The resolver delivers the registrar's address and doRegister2_ sets the *)
(* transport; setTransport calls initContactAddress                        *)
OnResolvedContact ==
    /\ resolving > 0
    /\ \E local \in {[ip |-> "10.0.0.4", port |-> 5060]}, upnp \in (IF upnpCtrl_ THEN UpnpAddrs ELSE {NoAddr}),
          stunEnabled \in BOOLEAN, receivedParameter \in ReceivedParameters,
          rPort \in RPorts :
       \E stun \in (IF stunEnabled THEN {[ip |-> "203.0.113.5", port |-> 5064]}
                                    ELSE {NoAddr}) :
        LET in == [In0 EXCEPT !.local = local, !.upnp = upnp,
                              !.stunEnabled_ = stunEnabled, !.stun = stun,
                              !.receivedParameter_ = receivedParameter,
                              !.rPort_ = rPort]
        IN  Commit("onResolved", in, onResolved([S EXCEPT !.resolving = @ - 1], in))

(* registration_cb with a 200 response that carries received and rport *)
OnRegisterContact ==
    \E regc \in RegcIds :
        /\ has_tsx[regc] # "none"
        /\ LET in == [In0 EXCEPT !.regc = regc, !.code = PJSIP_SC_OK,
                                 !.expiration = DEFAULT_REGISTRATION_EXPIRE,
                                 !.recvd_param = "203.0.113.9", !.rport_param = 5062]
           IN  Commit("onRegister", in,
                      onRegister([S EXCEPT !.has_tsx[regc] = "none"], in))

InitContact ==
    /\ InitAccount
    /\ hostname_ = "registrar"
    /\ ~tlsEnable_
    /\ allowIPAutoRewrite_ = TRUE
    /\ cred_ = <<>>
    /\ credentials_ = <<>>
    /\ InitMessages

NextContact ==
    \/ DoRegister
    \/ OnMappingNotify
    \/ OnResolvedContact
    \/ OnRegisterContact

SpecContact == InitContact /\ [][NextContact]_vars

-----------------------------------------------------------------------------
(* Configuration: setAccountDetails, unserialize and loadConfig            *)

(* The user name the account is configured with *)
username_ == "alice"

(* Values of the registration expiry key *)
ExpireValues == {0, 59, MIN_REGISTRATION_TIME, 61, 7200}

(* The map without a key *)
NoDetails == [k \in {} |-> 0]

(* Account detail maps, by the keys of them that the account's modelled    *)
(* members are read from: expire (Account.registrationExpire), rewrite     *)
(* (Account.allowIPAutoRewrite) and password (Account.password).           *)
DetailMaps ==
    {NoDetails, [rewrite |-> FALSE], [password |-> "pw"]}
    \cup {[expire |-> e] : e \in ExpireValues}

(* YAML nodes of a persisted account: expire is the key of the account,    *)
(* oldExpire the key of older files (Preferences), credential the list of  *)
(* credential maps, which every node has.                                  *)
YamlNodes ==
    {[credential |-> creds] : creds \in CredLists}
    \cup {[credential |-> <<>>, expire |-> e] : e \in ExpireValues}
    \cup {[credential |-> <<>>, oldExpire |-> 7200],
          [credential |-> <<>>, expire |-> 61, oldExpire |-> 7200],
          [credential |-> <<>>, rewrite |-> TRUE]}

(* parseInt, parseBool, parseString and parseValueOptional: the value of   *)
(* the key when the map has it, else the target as it was                  *)
parseOptional(map, key, target) ==
    IF key \in DOMAIN map THEN map[key] ELSE target

(* The configured members of the account *)
Config ==
    [hostname_ |-> hostname_, registrationExpire_ |-> registrationExpire_,
     allowIPAutoRewrite_ |-> allowIPAutoRewrite_,
     credentials_ |-> credentials_, cred_ |-> cred_]

(* Fault for C25: the expiry is stored as given *)
setRegistrationExpire_M(c, expire) == [c EXCEPT !.registrationExpire_ = expire]

(* SIPAccount::setRegistrationExpire *)
setRegistrationExpire(c, expire) ==
    [c EXCEPT !.registrationExpire_ =
        IF expire >= MIN_REGISTRATION_TIME THEN expire ELSE MIN_REGISTRATION_TIME]

(* setCredentials applied to the configured members *)
setConfigCredentials(c, creds, md5HashingEnabled) ==
    LET st == setCredentials([credentials_ |-> c.credentials_, cred_ |-> c.cred_],
                             creds, md5HashingEnabled)
    IN  [c EXCEPT !.credentials_ = st.credentials_, !.cred_ = st.cred_]

(* SIPAccount::setAccountDetails *)
setAccountDetails(c, details, md5HashingEnabled) ==
    LET c1 == [c EXCEPT !.allowIPAutoRewrite_ = parseOptional(details, "rewrite", @)]
        c2 == setRegistrationExpire(c1, parseOptional(details, "expire", 0))
    IN  IF c2.credentials_ = <<>>
           THEN setConfigCredentials(
                    c2,
                    <<[realm |-> "*", username |-> username_,
                       password |-> parseOptional(details, "password", "")]>>,
                    md5HashingEnabled)
           ELSE c2

(* SIPAccount::unserialize *)
unserialize(c, node, md5HashingEnabled) ==
    LET c1 == IF c.hostname_ # ""
                 THEN LET expire == IF "expire" \in DOMAIN node
                                       THEN node["expire"]
                                       ELSE parseOptional(node, "oldExpire", 0)
                          c2 == setRegistrationExpire(c, expire)
                          c3 == [c2 EXCEPT !.allowIPAutoRewrite_ =
                                               parseOptional(node, "rewrite", @)]
                      IN  setConfigCredentials(c3, node["credential"], md5HashingEnabled)
                 ELSE c
    IN  setConfigCredentials(c1, node["credential"], md5HashingEnabled)

(* SIPAccount::loadConfig *)
loadConfig(c) ==
    IF c.registrationExpire_ = 0
       THEN [c EXCEPT !.registrationExpire_ = DEFAULT_REGISTRATION_EXPIRE]
       ELSE c

(* A configuration method ran from the current state and left c; the       *)
(* record of the handler keeps the expiry it was given in its code field   *)
(* (-1 when the key was absent)                                            *)
CommitConfig(op, given, c) ==
    /\ ~crashed
    /\ ~destroyed
    /\ registrationExpire_' = c.registrationExpire_
    /\ allowIPAutoRewrite_' = c.allowIPAutoRewrite_
    /\ credentials_' = c.credentials_
    /\ cred_' = c.cred_
    /\ last' = LastMsg(op, given)
    /\ UNCHANGED <<hostname_, upnpCtrl_, tlsEnable_, enabled_, active_,
                   registrationState_, bRegister_, regc_, transport_, hostIp_,
                   tlsListener_, auto_rereg_, has_tsx, timerHeap, listeners, upnpCb,
                   resolving, crashed, sent, sched, delay, pending, reports, nextId,
                   credsGiven,
                   contactAddress_, contactHeader_, via_addr_, via_tp_,
                   publishedSameasLocal_, publishedIpAddress_, nat, racing, unlocked,
                   destroyed, dropped, failed, transportError_, publishedPort_,
                   contactFrom, released>>

(* setAccountDetails(details) *)
SetAccountDetails ==
    /\ ~destroyed
    /\ \E details \in DetailMaps, md5HashingEnabled \in BOOLEAN :
        CommitConfig("setAccountDetails", parseOptional(details, "expire", -1),
                     setAccountDetails(Config, details, md5HashingEnabled))

(* unserialize(node) *)
Unserialize ==
    /\ ~destroyed
    /\ \E node \in YamlNodes, md5HashingEnabled \in BOOLEAN :
        CommitConfig("unserialize",
                     IF "expire" \in DOMAIN node THEN node["expire"]
                     ELSE parseOptional(node, "oldExpire", -1),
                     unserialize(Config, node, md5HashingEnabled))

(* loadConfig() *)
LoadConfig ==
    /\ ~destroyed
    /\ CommitConfig("loadConfig", registrationExpire_, loadConfig(Config))

(* An account without UPnP and TLS that is configured *)
NextCfg ==
    \/ SetAccountDetails
    \/ Unserialize
    \/ LoadConfig

InitCfg == Init /\ ~upnpCtrl_ /\ ~tlsEnable_

SpecCfg == InitCfg /\ [][NextCfg]_vars

-----------------------------------------------------------------------------
(* The claims *)

(* The table of the specification: 403 is ErrorAuth, 404 and 408 are       *)
(* ErrorHost, 503 is ErrorServiceUnavailable, every other code is          *)
(* ErrorGeneric.                                                           *)
ClaimedErrorState(code) ==
    IF code = 403 THEN "ERROR_AUTH"
    ELSE IF code \in {404, 408} THEN "ERROR_HOST"
    ELSE IF code = 503 THEN "ERROR_SERVICE_UNAVAILABLE"
    ELSE "ERROR_GENERIC"

(* The codes of the specification that are retried *)
ClaimedRetry(code) ==
    code \in {408, 500, 502, 503, 504} \/ (code >= 600 /\ code <= 699)

In2xx(code) == code >= 200 /\ code <= 299

(* C1 as stated: after onRegister has handled a transport-level failure or *)
(* a final status code outside 2xx, the registration state is the one the  *)
(* table gives for the status code.                                        *)
C1_AsStated ==
    (/\ last.op = "onRegister"
     /\ \/ ~last.ok
        \/ last.code < 0
        \/ last.code >= 300)
    => registrationState_ = ClaimedErrorState(last.code)

(* C1 amended: after onRegister has handled a response with status         *)
(* PJ_SUCCESS and a status code below 0 or of 300 and more, the            *)
(* registration state is the one the table gives for the code; after a     *)
(* transport-level failure (status not PJ_SUCCESS) it is ErrorGeneric      *)
(* whatever the code.                                                      *)
C1_Amended ==
    last.op = "onRegister" =>
        /\ (last.ok /\ (last.code < 0 \/ last.code >= 300))
              => registrationState_ = ClaimedErrorState(last.code)
        /\ ~last.ok => registrationState_ = "ERROR_GENERIC"

C1_Witness ==
    /\ last.op = "onRegister"
    /\ last.ok
    /\ last.code = 408
    /\ registrationState_ = "ERROR_HOST"

(* C2: after onRegister on a usable account, scheduleReregistration has    *)
(* asked the timer heap for a retry timer exactly when the status code is  *)
(* 408, 500, 502, 503, 504 or in 600..699, and the timer is then pending   *)
(* unless the heap refused it; on an account that is not usable             *)
(* onRegister asks for no timer, whatever the code.                        *)
C2_RetryIffRetryableCode ==
    last.op = "onRegister" =>
        /\ isUsable(S) =>
              /\ (sched # <<>>) <=> ClaimedRetry(last.code)
              /\ (sched # <<>>) => sched[Len(sched)] \in {"scheduled", "refused"}
              /\ (sched # <<>> /\ sched[Len(sched)] = "scheduled")
                    => timerHeap = 1 /\ auto_rereg_.timer_id /\ auto_rereg_.active
        /\ ~isUsable(S) => sched = <<>>

C2_Witness ==
    /\ last.op = "onRegister"
    /\ last.code = 699
    /\ isUsable(S)
    /\ sched = <<"scheduled">>
    /\ timerHeap = 1

(* C3: a MESSAGE request answered with 401 or 407 is resent once, with the *)
(* CSeq of the challenged request plus 1; a request is never resent more   *)
(* than once, however the server answers.                                  *)
C3_AsStated ==
    \A c \in pending :
        /\ c.resends <= 1
        /\ c.cseq = c.cseq0 + c.resends

(* C4 as stated: when the final answer to a REGISTER is still 401 or 407,  *)
(* the registration state becomes ErrorAuth.                               *)
C4_AsStated ==
    (last.op = "onRegister" /\ last.code \in {401, 407})
    => registrationState_ = "ERROR_AUTH"

(* C5: the timer heap never holds more than one entry of the account's     *)
(* re-registration timer.                                                  *)
C5_AtMostOneTimer == timerHeap <= 1

C5_Witness ==
    /\ sched = <<"cancelled", "scheduled">>
    /\ timerHeap = 1

(* C6: whenever the registration state is Registered, in particular right  *)
(* after it became Registered by a 2xx response or by the direct-IP path,   *)
(* the attempt counter is 0.                                               *)
C6_RegisteredResetsAttempts ==
    registrationState_ = "REGISTERED" => auto_rereg_.attempt_cnt = 0

C6_Witness ==
    /\ last.op = "onRegister"
    /\ last.pre.attempts > 0
    /\ registrationState_ = "REGISTERED"
    /\ auto_rereg_.attempt_cnt = 0

(* Bases of the delay the jitter is tried on *)
DelayBases == {0, 1, 9, 10, 11, REGISTRATION_FIRST_RETRY_INTERVAL,
               REGISTRATION_RETRY_INTERVAL}

Millis(t) == t.sec * 1000 + t.msec

(* C7: a delay computed by scheduleReregistration is normalised and lies   *)
(* within 10 s of 60 s when the attempt counter is 0 and of 300 s when it  *)
(* is greater; and for every base and every draw the jittered delay lies   *)
(* within [base - 10 s, base + 10 s] for a base of 10 s and more, within   *)
(* [0, 10 s] for a smaller base.                                           *)
C7_DelayWithinJitter ==
    /\ sched # <<>> =>
          LET base == IF auto_rereg_.attempt_cnt = 0 THEN 60 ELSE 300
          IN  /\ Millis(delay) >= (base - 10) * 1000
              /\ Millis(delay) <= (base + 10) * 1000
              /\ delay.msec >= 0 /\ delay.msec <= 999
    /\ \A base \in DelayBases, jz \in JitterZero, jp \in JitterPos :
          LET d == JitterDelay(base, jz, jp)
          IN  IF base >= 10
                 THEN /\ Millis(d) >= (base - 10) * 1000
                      /\ Millis(d) <= (base + 10) * 1000
                 ELSE /\ Millis(d) >= 0
                      /\ Millis(d) <= 10000

C7_Witness ==
    /\ sched # <<>>
    /\ auto_rereg_.attempt_cnt > 0
    /\ delay = [sec |-> 290, msec |-> 0]

(* C8 as stated: unregister on an account that is not registered (the      *)
(* registered flag is clear and the state is not Registered) sends no      *)
(* request and leaves the registration state Unregistered.                 *)
C8_AsStated ==
    (/\ last.op = "doUnregister"
     /\ ~last.pre.registered
     /\ last.pre.state # "REGISTERED")
    => (registrationState_ = "UNREGISTERED" /\ sent = <<>>)

(* C9 as stated: after an unregister from Registered or from an Error*     *)
(* state, with no unREGISTER left to be answered, the registration state   *)
(* is Unregistered.                                                        *)
C9_AsStated ==
    (/\ last.op = "doUnregister"
     /\ ~crashed
     /\ last.pre.state \in ErrorStates \cup {"REGISTERED"}
     /\ (regc_ = 0 \/ has_tsx[regc_] # "unREGISTER"))
    => registrationState_ = "UNREGISTERED"

(* C10: after onRegister has handled a 2xx response, the registration      *)
(* state is Unregistered when the expiration is below 1 and Registered     *)
(* when it is 1 or more.                                                   *)
C10_SuccessByExpiration ==
    (last.op = "onRegister" /\ last.ok /\ In2xx(last.code)) =>
        /\ last.expiration < 1 => registrationState_ = "UNREGISTERED"
        /\ last.expiration >= 1 => registrationState_ = "REGISTERED"

C10_Witness ==
    /\ last.op = "onRegister"
    /\ last.ok
    /\ last.code = 299
    /\ last.expiration = 1
    /\ registrationState_ = "REGISTERED"

(* What the last call of checkNATAddress compared: the observed address    *)
(* and port, the contact with the default port for a contact without port, *)
(* the source of the response, and the address a rewritten header carries. *)
NatObserved == [ip |-> pj_sockaddr_parse(nat.via_addr), port |-> nat.rport]
NatContact ==
    IF nat.contact.port = 0
       THEN [nat.contact EXCEPT !.port = IF tlsEnable_ THEN 5061 ELSE 5060]
       ELSE nat.contact
NatSource == [ip |-> pj_sockaddr_parse(nat.src_name), port |-> 0]
NatObservedText ==
    IF NatObserved.ip = "2001:db8::1" THEN "[2001:db8::1]" ELSE nat.via_addr
NatCalled == nat.ret # "none"
NatSameAddress == NatObserved.ip # "" /\ NatObserved.ip = NatContact.ip
NatPublicPublicPrivate ==
    /\ NatContact.ip \notin PrivateIps
    /\ NatSource.ip \notin PrivateIps
    /\ NatObserved.ip \in PrivateIps
NatOnlyPortDiffers ==
    /\ NatSameAddress
    /\ NatObserved.port # NatContact.port
    /\ NatObserved.ip \in PrivateIps

(* C11: when the observed address and port of the REGISTER response equal  *)
(* the current contact address and port, checkNATAddress returns unchanged *)
(* and the contact header is the one it found.                             *)
C11_MatchNoRewrite ==
    (NatCalled /\ NatSameAddress /\ NatObserved.port = NatContact.port)
    => (nat.ret = "unchanged" /\ contactHeader_ = nat.header)

C11_Witness ==
    /\ nat.ret = "unchanged"
    /\ nat.contact = [ip |-> "203.0.113.5", port |-> 5060]
    /\ nat.via_addr = "203.0.113.5"
    /\ nat.rport = 5060
    /\ contactHeader_ = nat.header

C13_PrivateViaSuppressed ==
    (NatCalled /\ NatPublicPublicPrivate)
    => (nat.ret = "unchanged" /\ contactHeader_ = nat.header)

C13_Witness ==
    /\ nat.ret = "unchanged"
    /\ nat.contact = [ip |-> "203.0.113.5", port |-> 5060]
    /\ nat.src_name = "198.51.100.7"
    /\ nat.via_addr = "10.0.0.4"
    /\ contactHeader_ = nat.header

(* C14: when the observed address equals the contact address, only the    *)
(* port differs and the observed address is private, checkNATAddress       *)
(* returns unchanged and the contact header is the one it found.           *)
C14_AsStated ==
    (NatCalled /\ NatOnlyPortDiffers)
    => (nat.ret = "unchanged" /\ contactHeader_ = nat.header)

(* C15: checkNATAddress applied once more to the response it was just     *)
(* given, with nothing in between, returns unchanged.                      *)
C15_AsStated ==
    NatCalled =>
        checkNATAddress(S, [In0 EXCEPT !.recvd_param = nat.via_addr,
                                       !.rport_param = nat.rport,
                                       !.src_name = nat.src_name]).nat.ret = "unchanged"

(* C16: setCredentials with an empty list leaves the credential list and  *)
(* the auth-info list as they were.                                        *)
C16_EmptyListRejected ==
    [][(last'.op = "setCredentials" /\ last'.code = 0 /\ ~crashed)
       => (credentials_' = credentials_ /\ cred_' = cred_)]_vars

C16_Witness ==
    /\ last.op = "setCredentials"
    /\ last.code = 0
    /\ Len(credentials_) = 2
    /\ Len(cred_) = 2

(* C17: two REGISTER requests of the account are never outstanding at the *)
(* same time: no handler sends a REGISTER while an earlier REGISTER of the *)
(* account still awaits its response.                                      *)
C17_AsStated == ~racing

(* C18: every write of the registration state, the auto-retry state and   *)
(* the transport handle is made with the configuration lock held.          *)
C18_AsStated == unlocked = {}

(* C19: once resetAutoRegistration has deactivated the auto-retry, no     *)
(* re-registration timer of the account is pending and the callback        *)
(* context is released.                                                    *)
C19_AsStated ==
    ~auto_rereg_.active => (timerHeap = 0 /\ ~auto_rereg_.user_data)

(* C20: a re-registration timer that fires while the auto-retry is not    *)
(* active does nothing: no REGISTER is sent, the attempt counter and the   *)
(* registration state stay, and no released callback context is accessed.  *)
C20_AsStated ==
    [][(last'.op = "onTimer" /\ ~auto_rereg_.active)
       => (/\ ~crashed'
           /\ sent' = <<>>
           /\ auto_rereg_'.attempt_cnt = auto_rereg_.attempt_cnt
           /\ registrationState_' = registrationState_)]_vars

(* C21: once the account is destroyed, no re-registration timer of the     *)
(* account is pending and the timer's callback context is released.        *)
C21_AsStated ==
    (destroyed /\ last.op = "~SIPAccount")
    => (timerHeap = 0 /\ ~auto_rereg_.user_data)

(* C22: the account is a state listener of exactly the transport it holds  *)
(* and of no other transport.                                              *)
C22_AsStated ==
    listeners = IF transport_ = 0 THEN {} ELSE {transport_}

(* C23: when the resolver returns an empty address list, the registration  *)
(* state becomes ErrorHost and the attempt stops: the handler sends no     *)
(* REGISTER.                                                               *)
C23_AsStated ==
    (last.op = "onResolved" /\ last.hostIpsEmpty)
    => (registrationState_ = "ERROR_HOST" /\ sent = <<>>)

(* C24: handling a REGISTER response leaves the configured registration    *)
(* expiry as it was, whatever expiration the response carries.             *)
C24_ExpiryKept ==
    [][last'.op = "onRegister" => registrationExpire_' = registrationExpire_]_vars

C24_Witness ==
    /\ last.op = "onRegister"
    /\ last.ok
    /\ last.code = 200
    /\ last.expiration = 1
    /\ registrationState_ = "REGISTERED"
    /\ registrationExpire_ = DEFAULT_REGISTRATION_EXPIRE

(* C25 as stated: the configured registration expiry is at least 60       *)
(* seconds, and a value below 60 given to setAccountDetails or found by    *)
(* unserialize is replaced by 60.                                          *)
C25_AsStated ==
    /\ registrationExpire_ >= 60
    /\ (/\ last.op \in {"setAccountDetails", "unserialize"}
        /\ last.code >= 0 /\ last.code < 60)
       => registrationExpire_ = 60

(* C25 amended: the configured registration expiry is at least 60 seconds; *)
(* a value below 60 given to setAccountDetails or, for a registrar         *)
(* account, found by unserialize is replaced by 60 (unserialize of a       *)
(* direct-IP account does not read the key).                               *)
C25_ExpiryAtLeastMin ==
    /\ registrationExpire_ >= 60
    /\ (/\ last.op \in {"setAccountDetails", "unserialize"}
        /\ last.code >= 0 /\ last.code < 60
        /\ (last.op = "unserialize" => hostname_ # ""))
       => registrationExpire_ = 60

C25_Witness ==
    /\ last.op = "setAccountDetails"
    /\ last.code = 59
    /\ registrationExpire_ = 60

(* C26: after setAccountDetails or unserialize without the registration    *)
(* expiry key, and after loadConfig, the configured expiry is 3600.        *)
C26_AsStated ==
    (last.op \in {"setAccountDetails", "unserialize"} /\ last.code = -1)
    => registrationExpire_ = 3600

(* C27: the response to the REGISTER the account sent last is handled by   *)
(* onRegister and not discarded as stale: after a handler, the structure   *)
(* the account holds is not one whose response the handler discarded.      *)
C27_AsStated ==
    ~(regc_ # 0 /\ dropped = regc_)

(* C28: with UPnP configured, a handler that finds the port mapping still  *)
(* in progress starts neither the resolver nor the transport setup nor a   *)
(* REGISTER.                                                               *)
C28_AsStated ==
    [][(/\ last'.op \in {"doRegister", "onMappingNotify"}
        /\ upnpCtrl_
        /\ last'.inProgress)
       => (/\ resolving' = resolving
           /\ transport_' = transport_
           /\ sent' = <<>>)]_vars

(* C29: for the direct-IP profile, doRegister sends no REGISTER, and when  *)
(* it has set the state to Registered the account holds a transport.       *)
C29_AsStated ==
    (hostname_ = "" /\ last.op = "doRegister" /\ ~crashed)
    => (/\ sent = <<>>
        /\ registrationState_ = "REGISTERED" => transport_ # 0)

(* C30: a handler in which a step of the registration path failed (empty   *)
(* resolver result, no binding address, no TLS listener, no transport, the *)
(* REGISTER not built or not sent, on the first attempt or on a retry of   *)
(* the timer) leaves the registration state in one of the Error* states.   *)
C30_AsStated ==
    failed # "" => registrationState_ \in ErrorStates

(* C31: when the transport-state callback reports the account's transport  *)
(* no longer alive, the registration state becomes ErrorGeneric, the       *)
(* transport handle is cleared and the account is no longer a listener of  *)
(* that transport; when it reports the transport alive, the registration   *)
(* state and the transport handle stay and the stored transport error is   *)
(* empty.                                                                  *)
C31_TransportState ==
    [][(last'.op = "onTransportStateChanged" /\ transport_ # 0)
       => IF ~last'.alive
             THEN /\ registrationState_' = "ERROR_GENERIC"
                  /\ transport_' = 0
                  /\ transport_ \notin listeners'
             ELSE /\ registrationState_' = registrationState_
                  /\ transport_' = transport_
                  /\ listeners' = listeners
                  /\ transportError_' = ""]_vars

C31_Witness ==
    /\ last.op = "onTransportStateChanged"
    /\ ~last.alive
    /\ registrationState_ = "ERROR_GENERIC"
    /\ transport_ = 0
    /\ listeners = {}
    /\ transportError_ = "error"

(* C32: doUnregister calls its completion callback once; when the callback *)
(* runs the account holds no transport, the auto-retry is inactive, the    *)
(* attempt counter is 0 and the configuration lock is not held; and the    *)
(* argument of the callback tells whether the transport was freed.         *)
C32_AsStated ==
    /\ Len(released) <= 1
    /\ \A i \in 1..Len(released) :
          /\ released[i].transport_ = 0
          /\ ~released[i].active
          /\ released[i].attempt_cnt = 0
          /\ ~released[i].locked
          /\ released[i].arg = released[i].freed

(* C33: when the timer fires while the auto-retry is active, the attempt   *)
(* counter grows by exactly one and the account goes through sendRegister: *)
(* a usable account is in state TRYING and has sent a REGISTER or failed   *)
(* to; and when the send failed, scheduleReregistration asked the timer    *)
(* heap for a new retry.                                                   *)
C33_TimerRetry ==
    [][(last'.op = "onTimer" /\ auto_rereg_.active /\ ~crashed') =>
         /\ auto_rereg_'.attempt_cnt = auto_rereg_.attempt_cnt + 1
         /\ isUsable(S) =>
              /\ registrationState_' = "TRYING"
              /\ (failed' = "register") # (sent' = <<"REGISTER">>)
              /\ failed' = "register" =>
                   /\ auto_rereg_'.active
                   /\ Len(sched') > 0
                   /\ sched'[Len(sched')] \in {"scheduled", "refused"}
                   /\ sched'[Len(sched')] = "scheduled" =>
                        auto_rereg_'.timer_id /\ timerHeap' > 0]_vars

(* The timer fired, the REGISTER could not be sent, and the next retry is  *)
(* in the timer heap                                                       *)
C33_Witness ==
    /\ last.op = "onTimer"
    /\ failed = "register"
    /\ auto_rereg_.attempt_cnt = 1
    /\ registrationState_ = "TRYING"
    /\ auto_rereg_.timer_id
    /\ timerHeap > 0

C35_Reports ==
    [][/\ (last'.op = "onComplete"
           /\ last'.code \notin {PJSIP_SC_UNAUTHORIZED,
                                 PJSIP_SC_PROXY_AUTHENTICATION_REQUIRED})
          => /\ reports' = Append(reports,
                                  [to |-> last'.to, id |-> last'.id,
                                   ok |-> last'.code \in {PJSIP_SC_OK,
                                                          PJSIP_SC_ACCEPTED}])
             /\ \E c \in pending :
                   c.to = last'.to /\ c.id = last'.id /\ pending' = pending \ {c}
       /\ (last'.op = "onComplete"
           /\ last'.code \in {PJSIP_SC_UNAUTHORIZED,
                              PJSIP_SC_PROXY_AUTHENTICATION_REQUIRED}
           /\ Cardinality(pending') = Cardinality(pending))
          => /\ reports' = reports
             /\ \E c \in pending, d \in pending' :
                   /\ pending' \ {d} = pending \ {c}
                   /\ c.to = last'.to /\ c.id = last'.id
                   /\ d.to = c.to /\ d.id = c.id
                   /\ d.resends = c.resends + 1
       /\ (last'.op = "sendMessage" /\ ~crashed' /\ pending' = pending)
          => reports' = Append(reports,
                               [to |-> last'.to, id |-> last'.id, ok |-> FALSE])
       /\ (last'.op = "sendMessage" /\ pending' # pending)
          => /\ reports' = reports
             /\ \E d \in pending' :
                   d.to = last'.to /\ d.id = last'.id /\ pending' = pending \cup {d}
      ]_vars

(* The second message, a request to bob, is accepted after the first was   *)
(* reported, and the report carries bob and the id of the request          *)
C35_Witness ==
    /\ last.op = "onComplete"
    /\ last.code = PJSIP_SC_ACCEPTED
    /\ last.to = "bob"
    /\ last.id = 2
    /\ Len(reports) = 2
    /\ reports[2] = [to |-> "bob", id |-> 2, ok |-> TRUE]
    /\ reports[1].id = 1

(* C36: initContactAddress takes the contact address and port from the     *)
(* first of: the UPnP address and mapped port when UPnP is active and      *)
(* knows its external address; the published address and port when the     *)
(* published address is not the local one; the address and port STUN       *)
(* gives when STUN is enabled; the local address with the stored received  *)
(* parameter in place of the address and the stored rport in place of the  *)
(* port, each when it is set.                                              *)
C36_ContactPriority ==
    contactFrom # <<>> =>
      LET f == contactFrom[1]
          picked ==
             IF f.upnpActive /\ f.upnp.ip # "" THEN f.upnp
             ELSE IF ~f.publishedSameasLocal_
                THEN [ip |-> f.publishedIpAddress_, port |-> f.publishedPort_]
             ELSE IF f.stunEnabled_ THEN f.stun
             ELSE [ip |-> IF f.receivedParameter_ # "" THEN f.receivedParameter_
                                                       ELSE f.local.ip,
                   port |-> IF f.rPort_ > 0 THEN f.rPort_ ELSE f.local.port]
      IN  contactAddress_ = [ip |-> pj_sockaddr_parse(picked.ip), port |-> picked.port]

(* The published address wins over STUN, the received parameter and the    *)
(* local address of an account whose UPnP controller knows no address      *)
C36_Witness ==
    /\ contactFrom # <<>>
    /\ contactFrom[1].upnpActive
    /\ contactFrom[1].upnp = NoAddr
    /\ ~contactFrom[1].publishedSameasLocal_
    /\ contactFrom[1].stunEnabled_
    /\ contactFrom[1].receivedParameter_ # ""
    /\ contactFrom[1].rPort_ > 0
    /\ contactAddress_ = [ip |-> "203.0.113.9", port |-> 5060]

(* C37, as stated: for every list L, getCredentials after setCredentials(L) *)
(* returns the triples of L in their order with the cleartext password,    *)
(* with hashing or without; and cred_ has the length and order of          *)
(* credentials_, each record tagged as a digest exactly when hashing is    *)
(* enabled.                                                                *)
C37_AsStated ==
    last.op = "setCredentials" =>
       /\ getCredentials(credentials_) = credsGiven.creds
       /\ Len(cred_) = Len(credentials_)
       /\ \A i \in 1..Len(cred_) :
             /\ cred_[i].username = credentials_[i].username
             /\ (cred_[i].data_type = "PJSIP_CRED_DATA_DIGEST")
                   <=> credsGiven.md5HashingEnabled

(* C37, amended: the same for every list L that is not empty; and at all   *)
(* times cred_ has the length and order of credentials_, each record a     *)
(* digest exactly when its credential holds a hash.                        *)
C37_RoundTrip ==
    /\ (last.op = "setCredentials" /\ credsGiven.creds # <<>>) =>
          /\ getCredentials(credentials_) = credsGiven.creds
          /\ \A i \in 1..Len(cred_) :
                (cred_[i].data_type = "PJSIP_CRED_DATA_DIGEST")
                   <=> credsGiven.md5HashingEnabled
    /\ Len(cred_) = Len(credentials_)
    /\ \A i \in 1..Len(cred_) :
          /\ cred_[i].username = credentials_[i].username
          /\ (cred_[i].data_type = "PJSIP_CRED_DATA_DIGEST")
                <=> (credentials_[i].password_h # <<>>)
          /\ cred_[i].data = IF credentials_[i].password_h # <<>>
                                THEN credentials_[i].password_h
                                ELSE <<credentials_[i].password>>

(* Two credentials were set with hashing enabled and come back with their  *)
(* passwords in cleartext                                                  *)
C37_Witness ==
    /\ last.op = "setCredentials"
    /\ credsGiven.md5HashingEnabled
    /\ Len(credsGiven.creds) = 2
    /\ getCredentials(credentials_)[1].password = "pw"
    /\ cred_[1].data_type = "PJSIP_CRED_DATA_DIGEST"
    /\ cred_[1].data # <<"pw">>

(* C38: a registration callback for a structure that is not the account's  *)
(* current one leaves the registration state, the auto-retry state and its *)
(* timer, the contact, the published address and the registration          *)
(* structure as they are; a failure response that is handled leaves the    *)
(* account without a registration structure, and the account gets one only *)
(* by sending a REGISTER.                                                  *)
C38_StaleAndFailure ==
    /\ [](\A regc \in RegcIds \ {regc_}, ok \in BOOLEAN, code \in Codes :
            LET r == onRegister(S, [In0 EXCEPT !.regc = regc, !.ok = ok,
                                               !.code = code])
            IN  /\ r.registrationState_ = registrationState_
                /\ r.auto_rereg_ = auto_rereg_
                /\ r.timerHeap = timerHeap
                /\ r.contactAddress_ = contactAddress_
                /\ r.contactHeader_ = contactHeader_
                /\ r.publishedSameasLocal_ = publishedSameasLocal_
                /\ r.publishedIpAddress_ = publishedIpAddress_
                /\ r.via_addr_ = via_addr_
                /\ r.regc_ = regc_)
    /\ [][/\ (/\ last'.op = "onRegister"
              /\ dropped' = 0
              /\ (~last'.ok \/ last'.code < 0 \/ last'.code >= 300))
             => regc_' = 0
          /\ (regc_ = 0 /\ regc_' # 0) => (\E i \in 1..Len(sent') : sent'[i] = "REGISTER")
         ]_vars

(* The response to a REGISTER came before the account stored the structure *)
(* of the request: the 403 was dropped and the account is still TRYING     *)
C38_Witness ==
    /\ dropped # 0
    /\ last.code = PJSIP_SC_FORBIDDEN
    /\ registrationState_ = "TRYING"
    /\ regc_ = dropped
    /\ ~auto_rereg_.active

(* C39: sendMessage leaves the credential store as it is: every record of  *)
(* cred_ (realm, scheme, username, data type, data) is after the call what *)
(* it was before.                                                          *)
C39_AsStated ==
    [][last'.op = "sendMessage" => cred_' = cred_]_vars

(* C40: with allowIPAutoRewrite_ false, the handling of a 2xx response to  *)
(* a REGISTER leaves the contact address, the contact header, the          *)
(* published address with its same-as-local flag and the Via sent-by       *)
(* override as they were, and checkNATAddress is not called.               *)
C40_NoRewrite ==
    [][(/\ last'.op = "onRegister"
        /\ PJSIP_IS_STATUS_IN_CLASS(last'.code, 200)
        /\ ~allowIPAutoRewrite_)
       => /\ contactAddress_' = contactAddress_
          /\ contactHeader_' = contactHeader_
          /\ publishedIpAddress_' = publishedIpAddress_
          /\ publishedSameasLocal_' = publishedSameasLocal_
          /\ publishedPort_' = publishedPort_
          /\ via_addr_' = via_addr_
          /\ via_tp_' = via_tp_
          /\ nat' = NoNat]_vars

(* A 200 with an expiry registers the account, which keeps the contact it  *)
(* set with its transport                                                  *)
C40_Witness ==
    /\ last.op = "onRegister"
    /\ last.ok
    /\ last.code = PJSIP_SC_OK
    /\ last.expiration >= 1
    /\ dropped = 0
    /\ ~allowIPAutoRewrite_
    /\ registrationState_ = "REGISTERED"
    /\ contactAddress_ # NoAddr
    /\ publishedSameasLocal_
    /\ via_addr_.host = ""
    /\ nat = NoNat

====
